---- MODULE Spec2Model ----
(***************************************************************************)
(* A model of the go-mud server: the world (rooms, exits, doors), the      *)
(* entity registry, the players' sessions and combat pulses, and the       *)
(* clock.  Handlers are translated from the Go sources; every action       *)
(* models one whole handler, or one step of a handler between two of its   *)
(* suspension points.                                                      *)
(***************************************************************************)
EXTENDS Integers, Sequences, FiniteSets, TLC

VARIABLES
    doorClosed,         \* Door.Closed of every exit that has a door
    activePlayers,      \* name -> Player (the fields the handlers use)
    dbRoom,             \* players.room_id of the store, per name
    mobs,               \* the MobInstance objects ever allocated (the heap)
    mobInstances,       \* keys of the mobInstances registry
    worldMobCounts,     \* template id -> count
    roomMobs,           \* room id -> sequence of instance ids
    nextMobInstanceID,  \* next instance id
    mobResets,          \* the reset rules read from the area files
    pulse,              \* per player: where its PulseUpdate goroutine stands
    respawn,            \* per player: ScheduleRespawn sleepers still pending
    awards,             \* instance id -> number of HandleMobDeath awards
    session,            \* per player: where its command goroutine stands
    tm,                 \* the TimeManager and its goroutines
    lk,                 \* the two locks, and where each thread stands between them
    regs,               \* per player: what Heal and ReceiveAttack hold in flight
    creation,           \* the connection of a new name: CreateNewCharacter's locals
    db,                 \* the players table, but for room_id, as creation, gainxp
                        \* and quit write it: name -> row
    activeNames,        \* keys of the activePlayers map
    sched,              \* the tick callbacks' counters and what they have run
    loader,             \* the area files, those still to load, the rooms map
    mobMove,            \* the MoveMob call of the wandering callback in flight
    respawning,         \* per player: where a woken ScheduleRespawn stands
    conns,              \* per connection: where handleConnection stands, and the name
    index,              \* the activePlayers map: name -> the connection whose Player it holds
    last                \* the operation that ran last, with its response

doorVars   == <<doorClosed>>
playerVars == <<activePlayers, dbRoom>>
mobVars    == <<mobs, mobInstances, worldMobCounts, roomMobs, nextMobInstanceID, awards,
               mobResets>>
threadVars == <<pulse, respawn, session>>
flightVars == <<mobMove, respawning, conns, index>>
bootVars   == <<creation, db, activeNames, sched, loader, flightVars>>
vars == <<doorClosed, activePlayers, dbRoom, mobs, mobInstances, worldMobCounts,
          roomMobs, nextMobInstanceID, mobResets, pulse, respawn, awards, session, tm,
          lk, regs, creation, db, activeNames, sched, loader, mobMove,
          respawning, conns, index, last>>

(***************************************************************************)
(* The static world.                                                       *)
(***************************************************************************)
Players == {"Ada", "Bob"}

Nobody == "-"

RespawnRoomID == 3001

AltarRoomID == 3054

NoRoom == 0

IntID(n) == [kind |-> "int", n |-> n, parts |-> <<>>]

StringID(parts) == [kind |-> "string", n |-> 0, parts |-> parts]

Exit(id) == [ID |-> id, HasDoor |-> FALSE, Keywords |-> {}, Locked |-> FALSE]

DoorExit(id, keywords, locked) ==
    [ID |-> id, HasDoor |-> TRUE, Keywords |-> keywords, Locked |-> locked]

Room(area, noWandering, exits) ==
    [Area |-> area, NoWandering |-> noWandering, Exits |-> exits]

\* Five rooms of two areas.  3001 and 3054 are joined by two doors (a gate
\* and a hatch), 3001 and 3002 by a locked vault door; 3003 is closed to
\* wandering and 9001 lies in another area, behind a cross-area exit.
rooms ==
    (3001 :> Room("midgaard.yml", FALSE,
                  ("north" :> DoorExit(IntID(3054), {"gate", "Door"}, FALSE)) @@
                  ("up"    :> DoorExit(IntID(3054), {"hatch", "Door"}, FALSE)) @@
                  ("east"  :> DoorExit(IntID(3002), {"vault"}, TRUE)) @@
                  ("west"  :> Exit(StringID(<<"other.yml", "9001">>))))) @@
    (3054 :> Room("midgaard.yml", FALSE,
                  ("south" :> DoorExit(IntID(3001), {"gate", "Door"}, FALSE)) @@
                  ("down"  :> DoorExit(IntID(3001), {"hatch", "Door"}, FALSE)) @@
                  ("west"  :> Exit(IntID(3002))))) @@
    (3002 :> Room("midgaard.yml", FALSE,
                  ("west"  :> DoorExit(IntID(3001), {"vault"}, TRUE)) @@
                  ("east"  :> Exit(IntID(3054))) @@
                  ("north" :> Exit(IntID(3003))))) @@
    (3003 :> Room("midgaard.yml", TRUE,
                  ("south" :> Exit(IntID(3002))))) @@
    (9001 :> Room("other.yml", FALSE,
                  ("east"  :> Exit(StringID(<<"midgaard.yml", "3001">>)))))

RoomIDs == DOMAIN rooms

DoorKeys == {k \in RoomIDs \X {"north", "south", "east", "west", "up", "down"} :
                k[2] \in DOMAIN rooms[k[1]].Exits /\ rooms[k[1]].Exits[k[2]].HasDoor}

GetRoom(id) == IF id \in RoomIDs THEN id ELSE NoRoom

DirectionAliases ==
    ("n" :> "north") @@ ("s" :> "south") @@ ("e" :> "east") @@
    ("w" :> "west") @@ ("u" :> "up") @@ ("d" :> "down")

GetOppositeDirection(dir) ==
    CASE dir = "north" -> "south"
      [] dir = "south" -> "north"
      [] dir = "east"  -> "west"
      [] dir = "west"  -> "east"
      [] dir = "up"    -> "down"
      [] dir = "down"  -> "up"
      [] OTHER         -> "somewhere"

\* strings.ToLower on the words the model types
ToLower(s) ==
    CASE s = "NORTH"   -> "north"
      [] s = "Door"    -> "door"
      [] s = "Vault"   -> "vault"
      [] s = "OOC"     -> "ooc"
      [] s = "Quit"    -> "quit"
      [] s = "Respawn" -> "respawn"
      [] OTHER         -> s

\* strconv.Atoi on the numbers that cross-area references and typed lines
\* carry; -1 stands for the error it returns on anything else
Atoi(s) ==
    CASE s = "3001" -> 3001
      [] s = "5500" -> 5500
      [] s = "13000" -> 13000
      [] s = "-13000" -> -13000
      [] s = "9001" -> 9001
      [] s = "3002" -> 3002
      [] s = "3054" -> 3054
      [] s = "7777" -> 7777
      [] OTHER      -> -1

\* The room an exit leads to: the type switch on Exit.ID that MovePlayer,
\* MoveMob and ResetDoors share (NoRoom: the reference does not parse).
ExitRoomID(exit) ==
    IF exit.ID.kind = "int" THEN exit.ID.n
    ELSE IF Len(exit.ID.parts) # 2 THEN NoRoom
    ELSE IF Atoi(exit.ID.parts[2]) < 0 THEN NoRoom
    ELSE Atoi(exit.ID.parts[2])

PlayersInRoom(r) == {q \in Players : activePlayers[q].Room = r}

IsInCombat(p) == activePlayers[p].InCombat /\ activePlayers[p].Target # 0

\* What an operation leaves behind for its caller: the response returned to
\* the acting player and the other players it wrote a message to.
Did(op, who, input, resp, to) ==
    last' = [op |-> op, who |-> who, input |-> input, resp |-> resp, to |-> to]

\* A command that only answers the acting player.  (A handler leaves the
\* position of its own session to its caller.)
Say(p, input, resp) ==
    /\ Did("command", p, input, resp, {})
    /\ UNCHANGED <<doorVars, playerVars, mobVars, pulse, respawn, tm, lk, regs, bootVars>>

(***************************************************************************)
(* Doors.                                                                  *)
(***************************************************************************)
\* The reverse side of the door at (roomID, direction), or <<>> if the
\* destination has no exit with a door in the opposite direction.
ReverseDoor(roomID, direction) ==
    LET dest == ExitRoomID(rooms[roomID].Exits[direction])
        opp  == GetOppositeDirection(direction)
    IN  IF <<dest, opp>> \in DoorKeys THEN <<dest, opp>> ELSE <<>>

\* SynchronizeDoor(roomID, direction, isClosed): the door state after the
\* reverse side has been given the same closed flag.
SynchronizeDoor(dc, roomID, direction, isClosed) ==
    LET rev == ReverseDoor(roomID, direction)
    IN  IF rev = <<>> THEN dc ELSE [dc EXCEPT ![rev] = isClosed]

\* the occupants of the reverse side, who are told of the change
SynchronizeDoorNotified(roomID, direction) ==
    LET rev == ReverseDoor(roomID, direction)
    IN  IF rev = <<>> THEN {} ELSE PlayersInRoom(rev[1])

\* the exits of a room whose door carries the keyword
DoorsByKeyword(room, target) ==
    {d \in DOMAIN rooms[room].Exits :
        /\ rooms[room].Exits[d].HasDoor
        /\ \E k \in rooms[room].Exits[d].Keywords : ToLower(k) = target}

\* handleOpen, from "Open the door" on: local side, reverse side, broadcast
OpenDoorAt(p, input, room, d) ==
    /\ doorClosed' = SynchronizeDoor([doorClosed EXCEPT ![<<room, d>>] = FALSE],
                                     room, d, FALSE)
    /\ Did("command", p, input, "You open the door.",
           (PlayersInRoom(room) \cup SynchronizeDoorNotified(room, d)) \ {p})
    /\ UNCHANGED <<playerVars, mobVars, pulse, respawn, tm, lk, regs, bootVars>>

CloseDoorAt_NoSync(p, input, room, d) ==
    /\ doorClosed' = [doorClosed EXCEPT ![<<room, d>>] = TRUE]
    /\ Did("command", p, input, "You close the door.", PlayersInRoom(room) \ {p})
    /\ UNCHANGED <<playerVars, mobVars, pulse, respawn, tm, lk, regs, bootVars>>

\* handleClose, from "Close the door" on
CloseDoorAt(p, input, room, d) ==
    /\ doorClosed' = SynchronizeDoor([doorClosed EXCEPT ![<<room, d>>] = TRUE],
                                     room, d, TRUE)
    /\ Did("command", p, input, "You close the door.",
           (PlayersInRoom(room) \cup SynchronizeDoorNotified(room, d)) \ {p})
    /\ UNCHANGED <<playerVars, mobVars, pulse, respawn, tm, lk, regs, bootVars>>

\* the word after the command, lower-cased, a direction alias spelled out
DoorTarget(input) ==
    LET raw == ToLower(input[2])
    IN  IF raw \in DOMAIN DirectionAliases THEN DirectionAliases[raw] ELSE raw

handleOpen_NoLockCheck(p, input) ==
    LET room   == activePlayers[p].Room
        exits  == rooms[room].Exits
        target == DoorTarget(input)
    IN  IF Len(input) < 2 THEN Say(p, input, "Open what?")
        ELSE IF target \in DOMAIN exits
        THEN IF ~exits[target].HasDoor THEN Say(p, input, "There is no door.")
             ELSE IF ~doorClosed[<<room, target>>]
                  THEN Say(p, input, "The door is already open.")
             ELSE OpenDoorAt(p, input, room, target)
        ELSE IF DoorsByKeyword(room, target) = {}
             THEN Say(p, input, "You don't see that here.")
        ELSE \E d \in DoorsByKeyword(room, target) :
                IF ~doorClosed[<<room, d>>]
                THEN Say(p, input, "The door is already open.")
                ELSE OpenDoorAt(p, input, room, d)

handleOpen(p, input) ==
    LET room   == activePlayers[p].Room
        exits  == rooms[room].Exits
        target == DoorTarget(input)
    IN  IF Len(input) < 2 THEN Say(p, input, "Open what?")
        ELSE IF target \in DOMAIN exits
        THEN IF ~exits[target].HasDoor THEN Say(p, input, "There is no door.")
             ELSE IF ~doorClosed[<<room, target>>]
                  THEN Say(p, input, "The door is already open.")
             ELSE IF exits[target].Locked THEN Say(p, input, "The door is locked.")
             ELSE OpenDoorAt(p, input, room, target)
        ELSE IF DoorsByKeyword(room, target) = {}
             THEN Say(p, input, "You don't see that here.")
        ELSE \E d \in DoorsByKeyword(room, target) :
                IF ~doorClosed[<<room, d>>]
                THEN Say(p, input, "The door is already open.")
                ELSE IF exits[d].Locked THEN Say(p, input, "The door is locked.")
                ELSE OpenDoorAt(p, input, room, d)

handleClose(p, input) ==
    LET room   == activePlayers[p].Room
        exits  == rooms[room].Exits
        target == DoorTarget(input)
    IN  IF Len(input) < 2 THEN Say(p, input, "Close what?")
        ELSE IF target \in DOMAIN exits
        THEN IF ~exits[target].HasDoor THEN Say(p, input, "There is no door.")
             ELSE IF doorClosed[<<room, target>>]
                  THEN Say(p, input, "The door is already closed.")
             ELSE CloseDoorAt(p, input, room, target)
        ELSE IF DoorsByKeyword(room, target) = {}
             THEN Say(p, input, "You don't see that here.")
        ELSE \E d \in DoorsByKeyword(room, target) :
                IF doorClosed[<<room, d>>]
                THEN Say(p, input, "The door is already closed.")
                ELSE CloseDoorAt(p, input, room, d)

\* The unordered room pair ResetDoors keys its processedDoors map with.
DoorKey(k) ==
    LET dest == ExitRoomID(rooms[k[1]].Exits[k[2]])
    IN  IF k[1] < dest THEN <<k[1], dest>> ELSE <<dest, k[1]>>

\* The door states ResetDoors can end in, over every order in which the two
\* range loops can visit the exits: only an open door whose room pair is not
\* yet in processedDoors changes anything, so the walk branches on those.
RECURSIVE ResetDoorsWalk(_, _)
ResetDoorsWalk(dc, processedDoors) ==
    LET todo == {k \in DoorKeys : ~dc[k] /\ ExitRoomID(rooms[k[1]].Exits[k[2]]) # NoRoom
                                  /\ DoorKey(k) \notin processedDoors}
    IN  IF todo = {} THEN {dc}
        ELSE UNION {ResetDoorsWalk(
                        SynchronizeDoor([dc EXCEPT ![k] = TRUE], k[1], k[2], TRUE),
                        processedDoors \cup {DoorKey(k)}) : k \in todo}

ResetDoors ==
    /\ \E dc \in ResetDoorsWalk(doorClosed, {}) : doorClosed' = dc
    /\ Did("ResetDoors", Nobody, <<>>, "",
           UNION {PlayersInRoom(k[1]) : k \in {j \in DoorKeys : ~doorClosed[j]}})
    /\ UNCHANGED <<playerVars, mobVars, threadVars, tm, lk, regs, bootVars>>

(***************************************************************************)
(* Movement.                                                               *)
(***************************************************************************)
\* MovePlayer: the room to enter and the error, "" if there is none.  The
\* store write is UpdatePlayerRoom, which fails when dbOk is false.
MovePlayer(p, direction, dbOk) ==
    LET currentRoom == activePlayers[p].Room
        exits == rooms[currentRoom].Exits
        dest  == IF direction \in DOMAIN exits THEN ExitRoomID(exits[direction]) ELSE NoRoom
    IN  IF direction \notin DOMAIN exits
        THEN [room |-> currentRoom, err |-> "you can't go that way"]
        ELSE IF dest = NoRoom
        THEN [room |-> currentRoom, err |-> "invalid room reference"]
        ELSE IF GetRoom(dest) = NoRoom
        THEN [room |-> currentRoom, err |-> "room not found"]
        ELSE IF ~dbOk
        THEN [room |-> currentRoom, err |-> "database error"]
        ELSE [room |-> dest, err |-> ""]

HandleMovement_NoCombatCheck(p, input, command, dbOk) ==
    LET direction == IF command \in DOMAIN DirectionAliases
                     THEN DirectionAliases[command] ELSE command
        oldRoom == activePlayers[p].Room
        moved   == MovePlayer(p, direction, dbOk)
    IN  IF moved.err # "" THEN Say(p, input, moved.err)
        ELSE /\ dbRoom' = [dbRoom EXCEPT ![p] = moved.room]
             /\ activePlayers' = [activePlayers EXCEPT ![p].Room = moved.room]
             /\ Did("command", p, input, "You move.",
                    (PlayersInRoom(oldRoom) \cup PlayersInRoom(moved.room)) \ {p})
             /\ UNCHANGED <<doorVars, mobVars, pulse, respawn, tm, lk, regs, bootVars>>

HandleMovement(p, input, command, dbOk) ==
    LET direction == IF command \in DOMAIN DirectionAliases
                     THEN DirectionAliases[command] ELSE command
        oldRoom == activePlayers[p].Room
        moved   == MovePlayer(p, direction, dbOk)
    IN  IF IsInCombat(p) THEN Say(p, input, "you can't move while in combat")
        ELSE IF moved.err # "" THEN Say(p, input, moved.err)
        ELSE /\ dbRoom' = [dbRoom EXCEPT ![p] = moved.room]
             /\ activePlayers' = [activePlayers EXCEPT ![p].Room = moved.room]
             /\ Did("command", p, input, "You move.",
                    (PlayersInRoom(oldRoom) \cup PlayersInRoom(moved.room)) \ {p})
             /\ UNCHANGED <<doorVars, mobVars, pulse, respawn, tm, lk, regs, bootVars>>

\* strings.ToLower(player.LastCommand): the whole line in lower case.  A
\* line of several words is no direction and no alias.
LowerLine(input) == IF Len(input) = 1 THEN ToLower(input[1]) ELSE "several words"

handleMove(p, input, dbOk) == HandleMovement(p, input, LowerLine(input), dbOk)

handleGoto(p, input, dbOk) ==
    LET roomID == Atoi(input[2])
    IN  IF Len(input) < 2 THEN Say(p, input, "Goto where?")
        ELSE IF roomID < 0 THEN Say(p, input, "Invalid room ID.")
        ELSE IF GetRoom(roomID) = NoRoom THEN Say(p, input, "Room does not exist.")
        ELSE IF ~dbOk THEN Say(p, input, "Error updating player room.")
        ELSE /\ dbRoom' = [dbRoom EXCEPT ![p] = roomID]
             /\ activePlayers' = [activePlayers EXCEPT ![p].Room = roomID]
             /\ Did("command", p, input, "You teleport.", {})
             /\ UNCHANGED <<doorVars, mobVars, pulse, respawn, tm, lk, regs, bootVars>>

handleRecall(p, input, dbOk) ==
    LET oldRoom == activePlayers[p].Room
    IN  IF IsInCombat(p) THEN Say(p, input, "You cannot recall while fighting!")
        ELSE IF GetRoom(RespawnRoomID) = NoRoom
        THEN Say(p, input, "Your prayer goes unanswered.")
        ELSE IF ~dbOk THEN Say(p, input, "Your prayer fizzles.")
        ELSE /\ dbRoom' = [dbRoom EXCEPT ![p] = RespawnRoomID]
             /\ activePlayers' = [activePlayers EXCEPT ![p].Room = RespawnRoomID]
             /\ Did("command", p, input, "You pray for transportation.",
                    (PlayersInRoom(oldRoom) \cup PlayersInRoom(RespawnRoomID)) \ {p})
             /\ UNCHANGED <<doorVars, mobVars, pulse, respawn, tm, lk, regs, bootVars>>

(***************************************************************************)
(* Mobs: templates, reset rules, the instance registry.                    *)
(***************************************************************************)
MaxMobInstances == 3

toughnessMultipliers ==
    ("easy" :> 8) @@ ("medium" :> 10) @@ ("hard" :> 12) @@
    ("savage" :> 15) @@ ("boss" :> 20) @@ ("god" :> 50)

\* calculateMobStats: MaxHP = int(level * 10 * multiplier), in tenths
calculateMobStats(level, toughness) ==
    LET multiplier == IF toughness \in DOMAIN toughnessMultipliers
                      THEN toughnessMultipliers[toughness]
                      ELSE toughnessMultipliers["medium"]
    IN  (level * 10 * multiplier) \div 10

Mob(keywords, level, toughness, wandering) ==
    [Keywords |-> keywords, Level |-> level, Toughness |-> toughness,
     Wandering |-> wandering, MaxHP |-> calculateMobStats(level, toughness)]

mobRegistry ==
    (1 :> Mob({"janitor"}, 1, "easy", TRUE)) @@
    (2 :> Mob({"guard"}, 2, "medium", FALSE))

MobReset(mobVnum, roomVnum, limit, maxWorld) ==
    [MobVnum |-> mobVnum, RoomVnum |-> roomVnum, Limit |-> limit, MaxWorld |-> maxWorld]

\* the rules of the area files; room 7777 does not exist and template 9 is
\* in no registry
AreaResets ==
    << MobReset(1, 3054, 2, 2), MobReset(1, 7777, 1, 2), MobReset(9, 3003, 1, 1) >>

\* The registry state the mob functions read and write, as one value.
MobWorld ==
    [mobs |-> mobs, mobInstances |-> mobInstances, worldMobCounts |-> worldMobCounts,
     roomMobs |-> roomMobs, nextMobInstanceID |-> nextMobInstanceID]

EmptyMobWorld ==
    [mobs |-> <<>>, mobInstances |-> {}, worldMobCounts |-> [t \in DOMAIN mobRegistry |-> 0],
     roomMobs |-> [r \in RoomIDs |-> <<>>], nextMobInstanceID |-> 1]

SetMobWorld(w) ==
    /\ mobs' = w.mobs
    /\ mobInstances' = w.mobInstances
    /\ worldMobCounts' = w.worldMobCounts
    /\ roomMobs' = w.roomMobs
    /\ nextMobInstanceID' = w.nextMobInstanceID
    /\ UNCHANGED mobResets

\* the instances of a template in a room's list
RoomCount(w, mobID, room) ==
    Cardinality({i \in 1..Len(w.roomMobs[room]) : w.mobs[w.roomMobs[room][i]].ID = mobID})

\* The block that allocates an instance and enters it in the registry, the
\* count and the room's list (SpawnMob and both passes of ProcessMobResets).
NewInstance(w, mobID, room) ==
    LET id == w.nextMobInstanceID
    IN  [mobs |-> w.mobs @@ (id :> [ID |-> mobID, HP |-> mobRegistry[mobID].MaxHP,
                                    Room |-> room, HomeArea |-> rooms[room].Area]),
         mobInstances |-> w.mobInstances \cup {id},
         worldMobCounts |-> [w.worldMobCounts EXCEPT ![mobID] = @ + 1],
         roomMobs |-> [w.roomMobs EXCEPT ![room] = Append(@, id)],
         nextMobInstanceID |-> id + 1]

\* the list without the instance: its slot takes the last element
SwapRemove(list, id) ==
    LET found == {i \in 1..Len(list) : list[i] = id}
        i == CHOOSE j \in found : \A k \in found : j <= k
    IN  IF found = {} THEN list
        ELSE SubSeq([list EXCEPT ![i] = list[Len(list)]], 1, Len(list) - 1)

\* First pass of ProcessMobResets over the shuffled rules: one instance in
\* every room of a rule that has none, while the allowance lasts.
RECURSIVE FirstPass(_, _, _, _, _)
FirstPass(w, mobID, resets, i, remainingAllowed) ==
    IF i > Len(resets) \/ remainingAllowed <= 0
    THEN [w |-> w, remainingAllowed |-> remainingAllowed]
    ELSE IF GetRoom(resets[i].RoomVnum) = NoRoom
    THEN FirstPass(w, mobID, resets, i + 1, remainingAllowed)
    ELSE IF RoomCount(w, mobID, resets[i].RoomVnum) = 0 /\ resets[i].Limit > 0
    THEN FirstPass(NewInstance(w, mobID, resets[i].RoomVnum), mobID, resets, i + 1,
                   remainingAllowed - 1)
    ELSE FirstPass(w, mobID, resets, i + 1, remainingAllowed)

RECURSIVE SpawnTimes(_, _, _, _)
SpawnTimes(w, mobID, room, n) ==
    IF n <= 0 THEN w ELSE SpawnTimes(NewInstance(w, mobID, room), mobID, room, n - 1)

\* Second pass: every rule's room is filled up to the rule's limit.
RECURSIVE SecondPass(_, _, _, _, _)
SecondPass(w, mobID, resets, i, remainingAllowed) ==
    IF i > Len(resets) \/ remainingAllowed <= 0 THEN w
    ELSE IF GetRoom(resets[i].RoomVnum) = NoRoom
    THEN SecondPass(w, mobID, resets, i + 1, remainingAllowed)
    ELSE LET roomCount == RoomCount(w, mobID, resets[i].RoomVnum)
             roomRemaining == IF resets[i].Limit - roomCount > remainingAllowed
                              THEN remainingAllowed ELSE resets[i].Limit - roomCount
         IN  IF roomCount >= resets[i].Limit
             THEN SecondPass(w, mobID, resets, i + 1, remainingAllowed)
             ELSE SecondPass(SpawnTimes(w, mobID, resets[i].RoomVnum, roomRemaining),
                             mobID, resets, i + 1, remainingAllowed - roomRemaining)

RECURSIVE MaxOf(_)
MaxOf(S) == IF S = {} THEN 0
            ELSE LET x == CHOOSE y \in S : TRUE
                     m == MaxOf(S \ {x})
                 IN  IF x > m THEN x ELSE m

\* ResetTemplate with the whole world limit as the allowance, whatever the
\* current count
ResetTemplate_NoWorldCount(w, mobID, resets) ==
    LET maxWorld == MaxOf({resets[i].MaxWorld : i \in 1..Len(resets)})
        remainingAllowed == maxWorld
        first == IF Len(resets) > 1 /\ remainingAllowed > 1
                 THEN FirstPass(w, mobID, resets, 1, remainingAllowed)
                 ELSE [w |-> w, remainingAllowed |-> remainingAllowed]
    IN  IF mobID \notin DOMAIN mobRegistry THEN w
        ELSE IF first.remainingAllowed > 0
        THEN SecondPass(first.w, mobID, resets, 1, first.remainingAllowed)
        ELSE first.w

\* The body of the loop over mobResetsByID for one template, the rules in
\* the order rng.Shuffle left them in.
ResetTemplate(w, mobID, resets) ==
    LET maxWorld == MaxOf({resets[i].MaxWorld : i \in 1..Len(resets)})
        remainingAllowed == maxWorld - w.worldMobCounts[mobID]
        first == IF Len(resets) > 1 /\ remainingAllowed > 1
                 THEN FirstPass(w, mobID, resets, 1, remainingAllowed)
                 ELSE [w |-> w, remainingAllowed |-> remainingAllowed]
    IN  IF mobID \notin DOMAIN mobRegistry THEN w
        ELSE IF w.worldMobCounts[mobID] >= maxWorld THEN w
        ELSE IF first.remainingAllowed > 0
        THEN SecondPass(first.w, mobID, resets, 1, first.remainingAllowed)
        ELSE first.w

\* the orders a shuffle can leave the rules of a template in
Shuffles(mobID) ==
    LET idx == {i \in 1..Len(mobResets) : mobResets[i].MobVnum = mobID}
    IN  {[k \in 1..Cardinality(idx) |-> mobResets[f[k]]] :
            f \in {g \in [1..Cardinality(idx) -> idx] :
                      \A a, b \in 1..Cardinality(idx) : a # b => g[a] # g[b]}}

\* The registries ProcessMobResets can leave, over the orders in which the
\* map of templates is ranged over and the rules are shuffled.
RECURSIVE ProcessMobResetsWalk(_, _)
ProcessMobResetsWalk(w, todo) ==
    IF todo = {} THEN {w}
    ELSE UNION {UNION {ProcessMobResetsWalk(ResetTemplate(w, mobID, resets), todo \ {mobID}) :
                          resets \in Shuffles(mobID)} : mobID \in todo}

ProcessMobResets ==
    /\ \E w \in ProcessMobResetsWalk(MobWorld, {mobResets[i].MobVnum : i \in 1..Len(mobResets)}) :
          /\ w.nextMobInstanceID <= MaxMobInstances + 1
          /\ SetMobWorld(w)
    /\ Did("ProcessMobResets", Nobody, <<>>, "", {})
    /\ UNCHANGED <<doorVars, playerVars, awards, threadVars, tm, lk, regs, bootVars>>

\* IsMobInCombat: some player is fighting this instance
IsMobInCombat(players, id) ==
    \E q \in Players : players[q].InCombat /\ players[q].Target # 0 /\ players[q].Target = id

\* MoveMob without the test of the home area
MoveMob_NoAreaCheck(w, players, dc, id, direction) ==
    LET oldRoom == w.mobs[id].Room
        exits == rooms[oldRoom].Exits
        dest == ExitRoomID(exits[direction])
    IN  IF oldRoom = NoRoom THEN w
        ELSE IF IsMobInCombat(players, id) THEN w
        ELSE IF direction \notin DOMAIN exits THEN w
        ELSE IF exits[direction].HasDoor /\ dc[<<oldRoom, direction>>] THEN w
        ELSE IF dest = NoRoom \/ GetRoom(dest) = NoRoom THEN w
        ELSE IF rooms[dest].NoWandering THEN w
        ELSE [w EXCEPT !.roomMobs = [[@ EXCEPT ![oldRoom] = SwapRemove(@, id)]
                                        EXCEPT ![dest] = Append(@, id)],
                       !.mobs = [@ EXCEPT ![id].Room = dest]]

\* MoveMob: the registry after the move, unchanged when the move is refused
MoveMob(w, players, dc, id, direction) ==
    LET oldRoom == w.mobs[id].Room
        exits == rooms[oldRoom].Exits
        dest == ExitRoomID(exits[direction])
    IN  IF oldRoom = NoRoom THEN w
        ELSE IF IsMobInCombat(players, id) THEN w
        ELSE IF direction \notin DOMAIN exits THEN w
        ELSE IF exits[direction].HasDoor /\ dc[<<oldRoom, direction>>] THEN w
        ELSE IF dest = NoRoom \/ GetRoom(dest) = NoRoom THEN w
        ELSE IF rooms[dest].NoWandering THEN w
        ELSE IF w.mobs[id].HomeArea # "" /\ rooms[dest].Area # w.mobs[id].HomeArea THEN w
        ELSE [w EXCEPT !.roomMobs = [[@ EXCEPT ![oldRoom] = SwapRemove(@, id)]
                                        EXCEPT ![dest] = Append(@, id)],
                       !.mobs = [@ EXCEPT ![id].Room = dest]]

\* RemoveMobFromRoom: the list loses the instance if it holds it; the count
\* and the registry are written either way.
RemoveMobFromRoom(w, id) ==
    LET roomID == w.mobs[id].Room
        mobID == w.mobs[id].ID
    IN  IF roomID = NoRoom THEN w
        ELSE [w EXCEPT !.roomMobs = [@ EXCEPT ![roomID] = SwapRemove(@, id)],
                       !.worldMobCounts = [@ EXCEPT ![mobID] = IF @ - 1 < 0 THEN 0 ELSE @ - 1],
                       !.mobInstances = @ \ {id}]

\* the exits a wandering mob chooses among: those without a closed door
AvailableExits(w, dc, id) ==
    {d \in DOMAIN rooms[w.mobs[id].Room].Exits :
        ~(rooms[w.mobs[id].Room].Exits[d].HasDoor /\ dc[<<w.mobs[id].Room, d>>])}

\* The registries ProcessMobWandering can leave: the instances of the
\* registry are visited once each, in any order; one that wanders, is not
\* fought and wins its 20% roll takes a random available exit.
RECURSIVE ProcessMobWanderingWalk(_, _, _, _)
ProcessMobWanderingWalk(w, players, dc, todo) ==
    IF todo = {} THEN {w}
    ELSE UNION {
        ProcessMobWanderingWalk(w, players, dc, todo \ {id}) \cup
        (IF /\ mobRegistry[w.mobs[id].ID].Wandering
            /\ ~IsMobInCombat(players, id)
            /\ w.mobs[id].Room # NoRoom
         THEN UNION {ProcessMobWanderingWalk(MoveMob(w, players, dc, id, d), players, dc,
                                             todo \ {id}) : d \in AvailableExits(w, dc, id)}
         ELSE {}) : id \in todo}

ProcessMobWandering ==
    /\ \E w \in ProcessMobWanderingWalk(MobWorld, activePlayers, doorClosed, mobInstances) :
          /\ SetMobWorld(w)
          /\ Did("ProcessMobWandering", Nobody, <<>>, "",
                 {q \in Players : w.roomMobs[activePlayers[q].Room]
                                    # roomMobs[activePlayers[q].Room]})
    /\ UNCHANGED <<doorVars, playerVars, awards, threadVars, tm, lk, regs, bootVars>>

\* No MoveMob call is in flight.
NoMove == [pc |-> "idle", id |-> 0, direction |-> "", dest |-> NoRoom]

\* MoveMob down to mobMutex.Lock: whether every check lets the move through
MoveMobAllowed(w, players, dc, id, direction) ==
    LET oldRoom == w.mobs[id].Room
        exits == rooms[oldRoom].Exits
        dest == ExitRoomID(exits[direction])
    IN  /\ oldRoom # NoRoom
        /\ ~IsMobInCombat(players, id)
        /\ direction \in DOMAIN exits
        /\ ~(exits[direction].HasDoor /\ dc[<<oldRoom, direction>>])
        /\ dest # NoRoom /\ GetRoom(dest) # NoRoom
        /\ ~rooms[dest].NoWandering
        /\ ~(w.mobs[id].HomeArea # "" /\ rooms[dest].Area # w.mobs[id].HomeArea)

\* MoveMob from mobMutex.Lock on: out of the list of the room the instance
\* is in by now, onto the list of the destination found before
MoveMobLocked(w, id, dest) ==
    LET oldRoom == w.mobs[id].Room
    IN  [w EXCEPT !.roomMobs = [[@ EXCEPT ![oldRoom] = SwapRemove(@, id)]
                                   EXCEPT ![dest] = Append(@, id)],
                  !.mobs = [@ EXCEPT ![id].Room = dest]]

\* ProcessMobWandering visits one instance: its own tests, then MoveMob down
\* to the lock.  The callback holds no lock between the tests and the lock.
MoveMobBegin(id, direction) ==
    /\ mobMove.pc = "idle"
    /\ id \in mobInstances
    /\ mobRegistry[mobs[id].ID].Wandering
    /\ ~IsMobInCombat(activePlayers, id)
    /\ mobs[id].Room # NoRoom
    /\ direction \in AvailableExits(MobWorld, doorClosed, id)
    /\ IF MoveMobAllowed(MobWorld, activePlayers, doorClosed, id, direction)
       THEN mobMove' = [pc |-> "locked", id |-> id, direction |-> direction,
                          dest |-> ExitRoomID(rooms[mobs[id].Room].Exits[direction])]
       ELSE UNCHANGED mobMove
    /\ Did("MoveMob", Nobody, <<direction>>, "", {})
    /\ UNCHANGED <<doorVars, playerVars, mobVars, threadVars, tm, lk, regs,
                   creation, db, activeNames, sched, loader, respawning,
                   conns, index>>

\* MoveMob with the lock: the lists, the room of the instance, the notices
MoveMobEnd ==
    /\ mobMove.pc = "locked"
    /\ SetMobWorld(MoveMobLocked(MobWorld, mobMove.id, mobMove.dest))
    /\ mobMove' = NoMove
    /\ Did("MoveMob", Nobody, <<mobMove.direction>>, "moved",
           PlayersInRoom(mobs[mobMove.id].Room) \cup PlayersInRoom(mobMove.dest))
    /\ UNCHANGED <<doorVars, playerVars, awards, threadVars, tm, lk, regs,
                   creation, db, activeNames, sched, loader, respawning,
                   conns, index>>

\* strings.Contains(short description, search term), on the terms typed
Contains(text, term) ==
    \/ term = text
    \/ text = "the janitor" /\ term \in {"jan", "janitor", "the"}
    \/ text = "the guard" /\ term \in {"guard", "the"}

ShortDescription(mobID) == IF mobID = 1 THEN "the janitor" ELSE "the guard"

\* the first element of a list that satisfies the test, 0 (nil) if none
FirstIn(list, Test(_)) ==
    LET found == {i \in 1..Len(list) : Test(list[i])}
    IN  IF found = {} THEN 0 ELSE list[CHOOSE i \in found : \A j \in found : i <= j]

\* FindMobInRoom without a numeric prefix: the first instance of the list
\* that carries the keyword or the short description; failing that, the
\* first whose short description contains the term.
FindMobInRoom(w, roomID, searchTerm) ==
    LET list == w.roomMobs[roomID]
        Exact(id) == \/ \E k \in mobRegistry[w.mobs[id].ID].Keywords : ToLower(k) = searchTerm
                     \/ ShortDescription(w.mobs[id].ID) = searchTerm
        Partial(id) == Contains(ShortDescription(w.mobs[id].ID), searchTerm)
    IN  IF FirstIn(list, Exact) # 0 THEN FirstIn(list, Exact) ELSE FirstIn(list, Partial)

\* FindMobInRoomByNumericPrefix on "2.janitor": the second instance of the
\* list that carries the keyword.
SecondJanitor(w, roomID) ==
    LET list == w.roomMobs[roomID]
        found == {i \in 1..Len(list) : "janitor" \in mobRegistry[w.mobs[list[i]].ID].Keywords}
    IN  IF Cardinality(found) < 2 THEN 0
        ELSE list[CHOOSE i \in found : Cardinality({j \in found : j < i}) = 1]

FindMobByTarget(w, roomID, targetName) ==
    IF targetName = "2.janitor" THEN SecondJanitor(w, roomID)
    ELSE FindMobInRoom(w, roomID, targetName)

(***************************************************************************)
(* Combat.  Chances are in percent; a roll is a percentage too.            *)
(***************************************************************************)
Rolls == {3, 97}

Clamp(x, lo, hi) == IF x < lo THEN lo ELSE IF x > hi THEN hi ELSE x

\* CalculateHitChance with the adjustment growing with the difference
CalculateHitChance_Scaled(attackerLevel, defenderLevel) ==
    Clamp(80 + (5 * (attackerLevel - defenderLevel)), 5, 100)

CalculateHitChance(attackerLevel, defenderLevel) ==
    LET levelDifference == attackerLevel - defenderLevel
        adjustment == IF levelDifference >= 2 THEN 10
                      ELSE IF levelDifference = 1 THEN 5
                      ELSE IF levelDifference = -1 THEN -5
                      ELSE IF levelDifference <= -2 THEN -10
                      ELSE 0
    IN  Clamp(80 + adjustment, 5, 100)

CalculateEvasionChance(defenderLevel, attackerLevel) ==
    LET levelDifference == defenderLevel - attackerLevel
        adjustment == IF levelDifference >= 3 THEN 10
                      ELSE IF levelDifference <= -3 THEN -5 ELSE 0
    IN  Clamp(5 + adjustment, 5, 50)

CalculateCriticalChance(attackerLevel, defenderLevel) ==
    LET levelDifference == attackerLevel - defenderLevel
        adjustment == IF levelDifference >= 3 THEN 10
                      ELSE IF levelDifference <= -3 THEN -5 ELSE 0
    IN  Clamp(5 + adjustment, 5, 50)

ProcessEvasion(defenderLevel, attackerLevel, roll) ==
    roll <= CalculateEvasionChance(defenderLevel, attackerLevel)

ProcessCriticalHit(attackerLevel, defenderLevel, roll) ==
    roll <= CalculateCriticalChance(attackerLevel, defenderLevel)

CalculateDamage(attackerLevel) == attackerLevel * 2

\* int(100 * mobLevel * modifier), the modifier in hundredths
CalculateXPGain(playerLevel, mobLevel) ==
    LET levelDiff == mobLevel - playerLevel
        levelModifier == IF levelDiff >= 5 THEN 200
                         ELSE IF levelDiff >= 3 THEN 150
                         ELSE IF levelDiff >= 2 THEN 125
                         ELSE IF levelDiff >= 0 THEN 100
                         ELSE IF levelDiff = -1 THEN 75
                         ELSE IF levelDiff = -2 THEN 50
                         ELSE IF levelDiff = -3 THEN 25
                         ELSE 0
    IN  (100 * mobLevel * levelModifier) \div 100

calculateNextLevelXP(level) == (level * 1000) + ((level - 1) * 500)

\* the level-up loop of GainXP
RECURSIVE LevelUp(_)
LevelUp(pl) ==
    IF pl.XP < pl.NextLevelXP THEN pl
    ELSE LevelUp([pl EXCEPT !.XP = pl.XP - pl.NextLevelXP,
                            !.Level = pl.Level + 1,
                            !.NextLevelXP = calculateNextLevelXP(pl.Level + 1),
                            !.MaxHP = pl.MaxHP + (pl.CON * 5) + 10,
                            !.MaxMP = pl.MaxMP + ((pl.INT + pl.WIS) * 3) + 8,
                            !.HP = pl.MaxHP + (pl.CON * 5) + 10,
                            !.MP = pl.MaxMP + ((pl.INT + pl.WIS) * 3) + 8])

\* GainXP without the loop: one level at most
GainXP_OneLevel(pl, amount) ==
    LET got == [pl EXCEPT !.XP = pl.XP + amount]
    IN  IF got.XP < got.NextLevelXP THEN got
        ELSE [got EXCEPT !.XP = got.XP - got.NextLevelXP,
                         !.Level = got.Level + 1,
                         !.NextLevelXP = calculateNextLevelXP(got.Level + 1),
                         !.MaxHP = got.MaxHP + (got.CON * 5) + 10,
                         !.MaxMP = got.MaxMP + ((got.INT + got.WIS) * 3) + 8,
                         !.HP = got.MaxHP + (got.CON * 5) + 10,
                         !.MP = got.MaxMP + ((got.INT + got.WIS) * 3) + 8]

GainXP(pl, amount) == LevelUp([pl EXCEPT !.XP = pl.XP + amount])

EnterCombat(pl, target) == [pl EXCEPT !.InCombat = TRUE, !.Target = target]

ExitCombat(pl) == [pl EXCEPT !.InCombat = FALSE, !.Target = 0]

\* the other players BroadcastToRoom and BroadcastCombatMessage write to
RoomAudience(players, room, sender) ==
    {q \in Players \ {sender} : players[q].Room = room}

\* The players, the registry and the awards a combat routine works on, with
\* what it answered and whom it wrote to.
CombatState ==
    [players |-> activePlayers, w |-> MobWorld, awards |-> awards, resp |-> "", to |-> {}]

\* HandleMobDeath: out of combat, the experience award, the removal
HandleMobDeath(st, p, id) ==
    LET pl == st.players[p]
        xpGain == CalculateXPGain(pl.Level, mobRegistry[st.w.mobs[id].ID].Level)
    IN  [players |-> [st.players EXCEPT ![p] = GainXP(ExitCombat(pl), xpGain)],
         w |-> RemoveMobFromRoom(st.w, id),
         awards |-> [st.awards EXCEPT ![id] = @ + 1],
         resp |-> "You have slain it!",
         to |-> st.to \cup RoomAudience(st.players, pl.Room, p)]

ExecuteAttack(st, p, hitRoll, evadeRoll, critRoll) ==
    LET pl == st.players[p]
        id == pl.Target
        mobLevel == mobRegistry[st.w.mobs[id].ID].Level
        damage == IF ProcessCriticalHit(pl.Level, mobLevel, critRoll)
                  THEN CalculateDamage(pl.Level) * 2 ELSE CalculateDamage(pl.Level)
        hit == [st EXCEPT !.w.mobs[id].HP = @ - damage,
                          !.resp = "You hit it.",
                          !.to = @ \cup RoomAudience(st.players, pl.Room, p)]
    IN  IF ~pl.InCombat \/ id = 0 THEN st
        ELSE IF st.w.mobs[id].HP <= 0 THEN HandleMobDeath(st, p, id)
        ELSE IF hitRoll > CalculateHitChance(pl.Level, mobLevel)
        THEN [st EXCEPT !.resp = "You miss it.",
                        !.to = @ \cup RoomAudience(st.players, pl.Room, p)]
        ELSE IF ProcessEvasion(mobLevel, pl.Level, evadeRoll)
        THEN [st EXCEPT !.resp = "It evades your attack.",
                        !.to = @ \cup RoomAudience(st.players, pl.Room, p)]
        ELSE IF hit.w.mobs[id].HP <= 0 THEN HandleMobDeath(hit, p, id)
        ELSE hit

\* Die, up to the call of ScheduleRespawn
Die(st, p) ==
    [st EXCEPT !.players[p] = ExitCombat([@ EXCEPT !.IsDead = TRUE, !.HP = 0]),
               !.resp = "You have been killed!",
               !.to = @ \cup RoomAudience(st.players, st.players[p].Room, p)]

ReceiveAttack(st, p, attacker, evadeRoll, hitRoll, critRoll) ==
    LET pl == st.players[p]
        mobLevel == mobRegistry[st.w.mobs[attacker].ID].Level
        damage == IF ProcessCriticalHit(mobLevel, pl.Level, critRoll)
                  THEN CalculateDamage(mobLevel) * 2 ELSE CalculateDamage(mobLevel)
        hit == [st EXCEPT !.players[p].HP = IF @ - damage < 0 THEN 0 ELSE @ - damage,
                          !.resp = "It strikes you.",
                          !.to = @ \cup RoomAudience(st.players, pl.Room, p)]
    IN  IF ~(pl.InCombat /\ pl.Target # 0) \/ pl.Target = 0 \/ pl.Target # attacker \/ pl.IsDead
        THEN st
        ELSE IF ProcessEvasion(pl.Level, mobLevel, evadeRoll)
        THEN [st EXCEPT !.resp = "You evade just in time!",
                        !.to = @ \cup RoomAudience(st.players, pl.Room, p)]
        ELSE IF hitRoll <= CalculateHitChance(mobLevel, pl.Level)
        THEN IF hit.players[p].HP <= 0 THEN Die(hit, p) ELSE hit
        ELSE [st EXCEPT !.resp = "It misses!",
                        !.to = @ \cup RoomAudience(st.players, pl.Room, p)]

\* Writes a combat routine's result back.
SetCombatState(st) ==
    /\ activePlayers' = st.players
    /\ SetMobWorld(st.w)
    /\ awards' = st.awards

(***************************************************************************)
(* Session commands.                                                       *)
(***************************************************************************)
\* strings.ToLower(strings.Join(args, " ")) on the targets typed
TargetName(input) == IF Len(input) = 2 THEN ToLower(input[2]) ELSE "several words"

handleAttack(p, input) ==
    LET pl == activePlayers[p]
        mob == FindMobByTarget(MobWorld, pl.Room, TargetName(input))
    IN  IF IsInCombat(p) THEN Say(p, input, "You are already in combat!")
        ELSE IF Len(input) < 2 THEN Say(p, input, "Attack what?")
        ELSE IF mob = 0 THEN Say(p, input, "You don't see that here.")
        ELSE IF mobs[mob].HP <= 0 THEN Say(p, input, "It is already dead!")
        ELSE /\ activePlayers' = [activePlayers EXCEPT ![p] = EnterCombat(pl, mob)]
             /\ Did("command", p, input, "You attack it!", RoomAudience(activePlayers, pl.Room, p))
             /\ UNCHANGED <<doorVars, dbRoom, mobVars, pulse, respawn, tm, lk, regs, bootVars>>

handleFlee(p, input) ==
    IF ~IsInCombat(p) THEN Say(p, input, "You're not in combat.")
    ELSE /\ activePlayers' = [activePlayers EXCEPT ![p] = ExitCombat(@)]
         /\ Did("command", p, input, "You flee!",
                RoomAudience(activePlayers, activePlayers[p].Room, p))
         /\ UNCHANGED <<doorVars, dbRoom, mobVars, pulse, respawn, tm, lk, regs, bootVars>>

\* handleRespawn; a failed store write is logged and nothing else
handleRespawn(p, input, dbOk) ==
    LET pl == activePlayers[p]
        oldRoom == pl.Room
    IN  IF ~pl.IsDead THEN Say(p, input, "You are not dead!")
        ELSE IF GetRoom(RespawnRoomID) = NoRoom
        THEN /\ activePlayers' = [activePlayers EXCEPT ![p] =
                    [pl EXCEPT !.IsDead = FALSE, !.HP = pl.MaxHP \div 2, !.MP = pl.MaxMP \div 2]]
             /\ Did("command", p, input, "Error during respawn.", {})
             /\ UNCHANGED <<doorVars, dbRoom, mobVars, pulse, respawn, tm, lk, regs, bootVars>>
        ELSE /\ activePlayers' = [activePlayers EXCEPT ![p] =
                    [pl EXCEPT !.IsDead = FALSE, !.HP = pl.MaxHP \div 2, !.MP = pl.MaxMP \div 2,
                               !.Room = RespawnRoomID]]
             /\ dbRoom' = IF dbOk THEN [dbRoom EXCEPT ![p] = RespawnRoomID] ELSE dbRoom
             /\ Did("command", p, input, "You feel your spirit being pulled back.",
                    (IF oldRoom # RespawnRoomID THEN RoomAudience(activePlayers, oldRoom, p) ELSE {})
                    \cup RoomAudience(activePlayers, RespawnRoomID, p))
             /\ UNCHANGED <<doorVars, mobVars, pulse, respawn, tm, lk, regs, bootVars>>

\* look and score answer the player and write nothing the model holds
handleLook(p, input) == Say(p, input, "You look around.")

handleScore(p, input) == Say(p, input, "Your scorecard.")

\* UpdatePlayerXP, UpdatePlayerHPMP and UpdatePlayerStats on the row of pl
SaveStats(row, pl) ==
    [row EXCEPT !.xp = pl.XP, !.next_level_xp = pl.NextLevelXP, !.hp = pl.HP,
                !.max_hp = pl.MaxHP, !.mp = pl.MP, !.max_mp = pl.MaxMP,
                !.stamina = pl.Stamina, !.max_stamina = pl.MaxStamina]

\* quit saves the player's progress and says goodbye; leaving the loop is
\* left to playGame
handleQuit(p, input) ==
    /\ db' = [db EXCEPT ![p] = SaveStats(@, activePlayers[p])]
    /\ Did("command", p, input, "Your progress has been saved. Goodbye!", {})
    /\ UNCHANGED <<doorVars, playerVars, mobVars, pulse, respawn, tm, lk, regs, creation,
                   activeNames, sched, loader, flightVars>>

\* gainxp saves what GainXP left; a level gained was saved by GainXP itself
handleGainXP(p, input) ==
    IF Len(input) >= 2 /\ Atoi(input[2]) # -1
    THEN LET gained == GainXP(activePlayers[p], Atoi(input[2]))
         IN  /\ activePlayers' = [activePlayers EXCEPT ![p] = gained]
             /\ db' = [db EXCEPT ![p] =
                         [SaveStats(@, gained) EXCEPT
                            !.level = IF gained.Level # activePlayers[p].Level
                                      THEN gained.Level ELSE @]]
             /\ Did("command", p, input, "Gained XP.", {})
             /\ UNCHANGED <<doorVars, dbRoom, mobVars, pulse, respawn, tm, lk, regs,
                            creation, activeNames, sched, loader, flightVars>>
    ELSE Say(p, input, "Usage: gainxp <amount>")

\* the commands of commandHandlers the model types
commandHandlers ==
    {"quit", "look", "score", "attack", "kill", "flee", "north", "south", "east", "west",
     "up", "down", "n", "s", "e", "w", "u", "d", "respawn", "recall", "open", "close", "goto",
     "gainxp"}

\* HandleOOCCommand is given the raw line before anything else is looked at
IsOOC(input) == input[1] = "ooc"

\* the commands a dead player is let through with
AllowedWhenDead == {"look", "score", "quit", "respawn"}

DeadRejection == "You are dead and cannot do that. Type 'respawn' to return to life."

\* HandleOOCCommand: "ooc" alone is answered with the usage; a message is
\* broadcast to every connected player.
HandleOOCCommand(p, input) ==
    /\ Did("command", p, input, "", IF Len(input) = 1 THEN {} ELSE Players \ {p})
    /\ UNCHANGED <<doorVars, playerVars, mobVars, pulse, respawn, tm, lk, regs, bootVars>>

\* The handler commandHandlers holds for the command, run on the line.
RunHandler(p, input, dbOk) ==
    LET command == ToLower(input[1])
    IN  CASE command = "quit" -> handleQuit(p, input)
          [] command = "look" -> handleLook(p, input)
          [] command = "score" -> handleScore(p, input)
          [] command \in {"attack", "kill"} -> handleAttack(p, input)
          [] command = "flee" -> handleFlee(p, input)
          [] command = "respawn" -> handleRespawn(p, input, dbOk)
          [] command = "recall" -> handleRecall(p, input, dbOk)
          [] command = "open" -> handleOpen(p, input)
          [] command = "close" -> handleClose(p, input)
          [] command = "goto" -> handleGoto(p, input, dbOk)
          [] command = "gainxp" -> handleGainXP(p, input)
          [] OTHER -> handleMove(p, input, dbOk)

\* What HandleCommand decides before it runs a handler.
Gate(p, input) ==
    LET command == ToLower(input[1])
    IN  IF IsOOC(input) THEN "ooc"
        ELSE IF activePlayers[p].IsDead /\ command \notin AllowedWhenDead THEN "dead"
        ELSE IF command \notin commandHandlers THEN "unknown"
        ELSE "run"

\* HandleCommand up to the handler, run without interruption
HandleCommandGate(p, input) ==
    CASE Gate(p, input) = "ooc" -> HandleOOCCommand(p, input)
      [] Gate(p, input) = "dead" -> Say(p, input, DeadRejection)
      [] Gate(p, input) = "unknown" -> Say(p, input, "Unknown command")
      [] OTHER -> FALSE

\* HandleCommand as one step of the session goroutine
HandleCommand(p, input, dbOk) ==
    /\ session[p].pc = "idle"
    /\ IF Gate(p, input) = "run" THEN RunHandler(p, input, dbOk)
       ELSE HandleCommandGate(p, input)
    /\ UNCHANGED session

(***************************************************************************)
(* The TimeManager.  Its goroutines are counted by where they stand: a     *)
(* ticker goroutine waits in its select or is blocked sending on its       *)
(* unbuffered channel; processEvents waits in its select; a dispatched     *)
(* callback is a goroutine that has yet to run.                            *)
(***************************************************************************)
MaxStarts == 2

MaxFuncs == 2

MaxCalls == 2

MaxPanics == 1

Kinds == {"heart", "pulse", "tick"}

\* NewTimeManager
NewTimeManager ==
    [running |-> FALSE, stopClosed |-> FALSE, panicked |-> FALSE, starts |-> 0,
     funcs |-> [k \in Kinds |-> 0], waiting |-> [k \in Kinds |-> 0],
     sending |-> [k \in Kinds |-> 0], procs |-> 0, calls |-> 0,
     recovered |-> 0]

ClockStep(op, kind, n) ==
    /\ Did(op, Nobody, <<kind>>, "", {})
    /\ UNCHANGED <<doorVars, playerVars, mobVars, threadVars, lk, regs, bootVars>>

RegisterFunc(k) ==
    /\ ~tm.panicked
    /\ tm.funcs[k] < MaxFuncs
    /\ tm' = [tm EXCEPT !.funcs[k] = @ + 1]
    /\ ClockStep("Register", k, 0)

Start ==
    /\ ~tm.panicked
    /\ tm.starts < MaxStarts
    /\ IF tm.running THEN tm' = tm
       ELSE tm' = [tm EXCEPT !.running = TRUE, !.starts = @ + 1,
                             !.waiting = [k \in Kinds |-> @[k] + 1],
                             !.procs = @ + 1]
    /\ ClockStep("Start", "", 0)

\* Stop: closing a channel that is closed already panics
Stop ==
    /\ ~tm.panicked
    /\ IF ~tm.running THEN tm' = tm
       ELSE IF tm.stopClosed THEN tm' = [tm EXCEPT !.panicked = TRUE]
       ELSE tm' = [tm EXCEPT !.stopClosed = TRUE, !.running = FALSE]
    /\ ClockStep("Stop", "", 0)

\* a ticker goroutine's select takes the ticker case and goes on to send
TickerFire(k) ==
    /\ ~tm.panicked
    /\ tm.waiting[k] > 0
    /\ tm' = [tm EXCEPT !.waiting[k] = @ - 1, !.sending[k] = @ + 1]
    /\ ClockStep("ticker", k, 0)

\* a ticker goroutine's select takes the stopChan case and returns
TickerStop(k) ==
    /\ ~tm.panicked
    /\ tm.stopClosed
    /\ tm.waiting[k] > 0
    /\ tm' = [tm EXCEPT !.waiting[k] = @ - 1]
    /\ ClockStep("tickerStop", k, 0)

\* processEvents' select takes a channel a ticker goroutine is sending on
\* and runs the execute function: one goroutine per registered callback
processEvents(k) ==
    /\ ~tm.panicked
    /\ tm.procs > 0
    /\ tm.sending[k] > 0
    /\ tm.calls + tm.funcs[k] <= MaxCalls
    /\ tm' = [tm EXCEPT !.sending[k] = @ - 1, !.waiting[k] = @ + 1,
                        !.calls = @ + tm.funcs[k]]
    /\ Did("dispatch", Nobody, <<k>>, "", {})
    /\ UNCHANGED <<doorVars, playerVars, mobVars, threadVars, lk, regs, bootVars>>

\* processEvents' select takes the stopChan case and returns
processEventsStop ==
    /\ ~tm.panicked
    /\ tm.stopClosed
    /\ tm.procs > 0
    /\ tm' = [tm EXCEPT !.procs = @ - 1]
    /\ ClockStep("processEventsStop", "", 0)

\* a dispatched callback runs and panics, with no recover around it: the
\* panic ends the program
RunCallback_NoRecover(failed) ==
    /\ ~tm.panicked
    /\ tm.calls > 0
    /\ failed => tm.recovered < MaxPanics
    /\ tm' = IF failed THEN [tm EXCEPT !.panicked = TRUE]
             ELSE [tm EXCEPT !.calls = @ - 1]
    /\ ClockStep("callback", IF failed THEN "panic" ELSE "", 0)

\* a dispatched callback runs in its own goroutine; if it panics, the
\* deferred recover of that goroutine logs the panic and the goroutine ends
RunCallback(failed) ==
    /\ ~tm.panicked
    /\ tm.calls > 0
    /\ failed => tm.recovered < MaxPanics
    /\ tm' = IF failed THEN [tm EXCEPT !.calls = @ - 1, !.recovered = @ + 1]
             ELSE [tm EXCEPT !.calls = @ - 1]
    /\ ClockStep("callback", IF failed THEN "panic" ELSE "", 0)

(***************************************************************************)
(* The two locks.  playersMutex is a sync.Mutex, mobMutex a sync.RWMutex:  *)
(* a writer that has called Lock keeps new readers out while it waits for  *)
(* the readers that are in.  An operation is followed through the steps    *)
(* that take or release a lock or write to client streams; a write to the  *)
(* stream of a client that has stopped reading never returns.              *)
(***************************************************************************)
Sessions == Players

Callbacks == {"wander", "resets", "regen"}

Threads == Sessions \cup Callbacks

NewLocks ==
    [players |-> Nobody,                      \* holder of playersMutex
     writer  |-> Nobody,                      \* holder of mobMutex.Lock
     pending |-> {},                          \* threads inside mobMutex.Lock, waiting
     readers |-> [t \in Threads |-> 0],       \* mobMutex.RLock held, per thread
     stuck   |-> Nobody,                      \* the client that stopped reading
     prog    |-> [t \in Threads |-> <<>>]]    \* steps the thread has yet to take

\* the next step of a thread, <<"idle">> when it runs no operation
NextInstr(t) == IF lk.prog[t] = <<>> THEN <<"idle">> ELSE Head(lk.prog[t])

Busy(t) == lk.prog[t] # <<>>

RECURSIVE Repeat(_, _)
Repeat(steps, n) == IF n <= 0 THEN <<>> ELSE steps \o Repeat(steps, n - 1)

\* DescribeRoom: the other players are collected under playersMutex; then
\* mobMutex is read-locked, GetMobsInRoom read-locks it again, and for each
\* mob of the room playersMutex is taken to look for its fighter.
DescribeRoom(p) ==
    << <<"Lock", "players">>, <<"Unlock", "players">>,
       <<"RLock", "mobs">>, <<"RLock", "mobs">>, <<"RUnlock", "mobs">> >>
    \o Repeat(<< <<"Lock", "players">>, <<"Unlock", "players">> >>,
              Len(roomMobs[activePlayers[p].Room]))
    \o << <<"RUnlock", "mobs">> >>

\* handleDebug, option mobs
DebugMobs(p) ==
    << <<"RLock", "mobs">>, <<"RLock", "mobs">>, <<"RUnlock", "mobs">>,
       <<"RUnlock", "mobs">> >>

\* BroadcastToRoom: the lock is taken, every other player of the room is
\* sent the message, and the deferred unlock runs on return
BroadcastToRoom(room, sender) ==
    << <<"Lock", "players">>,
       <<"Write", {q \in Players : q # sender /\ activePlayers[q].Room = room}>>,
       <<"Unlock", "players">> >>

\* OOCManager.BroadcastMessage with nobody excluded
BroadcastMessage ==
    << <<"Lock", "players">>, <<"Write", Players>>, <<"Unlock", "players">> >>

\* ProcessMobWandering in a pulse that passes the 15% roll, with one instance
\* winning its 20% roll: IsMobInCombat takes playersMutex under mobMutex for
\* every instance; mobMutex is released around MoveMob, which checks
\* IsMobInCombat again, takes mobMutex itself and writes its notices to the
\* players of both rooms before its deferred unlock.
WanderingLocks(id, direction) ==
    LET from == mobs[id].Room
        to   == ExitRoomID(rooms[from].Exits[direction])
        check == << <<"Lock", "players">>, <<"Unlock", "players">> >>
    IN  << <<"Lock", "mobs">> >>
        \o Repeat(check, Cardinality(mobInstances))
        \o << <<"Unlock", "mobs">> >> \o check
        \o << <<"Lock", "mobs">>,
              <<"Write", PlayersInRoom(from)>>, <<"Write", PlayersInRoom(to)>>,
              <<"Unlock", "mobs">>, <<"Lock", "mobs">>, <<"Unlock", "mobs">> >>

\* ProcessMobResets: the whole cycle under mobMutex
ResetLocks == << <<"Lock", "mobs">>, <<"Unlock", "mobs">> >>

\* the regeneration tick: every RegenTick under playersMutex
RegenLocks == << <<"Lock", "players">>, <<"Unlock", "players">> >>

\* the steps of a session command up to the reply playGame sends
SessionCommands == {"look", "debug", "open", "ooc"}

CommandLocks(p, command) ==
    (CASE command = "look"  -> DescribeRoom(p)
       [] command = "debug" -> DebugMobs(p)
       [] command = "open"  -> BroadcastToRoom(activePlayers[p].Room, p)
       [] command = "ooc"   -> BroadcastMessage)
    \o (IF command = "ooc" THEN <<>> ELSE << <<"Write", {p}>> >>)

LockFrame == UNCHANGED <<doorVars, playerVars, mobVars, threadVars, tm, regs, bootVars, last>>

\* a session reads a line and HandleCommand begins
BeginCommand(p, command) ==
    /\ ~Busy(p)
    /\ lk' = [lk EXCEPT !.prog[p] = CommandLocks(p, command)]
    /\ LockFrame

\* the clock dispatches a callback
BeginCallback(t) ==
    /\ ~Busy(t)
    /\ \/ /\ t = "wander"
          /\ \E id \in mobInstances :
                /\ mobRegistry[mobs[id].ID].Wandering
                /\ \E d \in AvailableExits(MobWorld, doorClosed, id) :
                      lk' = [lk EXCEPT !.prog[t] = WanderingLocks(id, d)]
       \/ /\ t = "resets"
          /\ lk' = [lk EXCEPT !.prog[t] = ResetLocks]
       \/ /\ t = "regen"
          /\ lk' = [lk EXCEPT !.prog[t] = RegenLocks]
    /\ LockFrame

\* the rest of the thread's operation once its next step is taken
Advance(t) == [lk.prog EXCEPT ![t] = Tail(@)]

\* sync.Mutex.Lock and Unlock on playersMutex
LockPlayers(t) ==
    /\ NextInstr(t) = <<"Lock", "players">>
    /\ lk.players = Nobody
    /\ lk' = [lk EXCEPT !.players = t, !.prog = Advance(t)]
    /\ LockFrame

UnlockPlayers(t) ==
    /\ NextInstr(t) = <<"Unlock", "players">>
    /\ lk' = [lk EXCEPT !.players = Nobody, !.prog = Advance(t)]
    /\ LockFrame

\* sync.RWMutex.RLock: waits while a writer holds the lock or is inside Lock
RLockMobs(t) ==
    /\ NextInstr(t) = <<"RLock", "mobs">>
    /\ lk.writer = Nobody /\ lk.pending = {}
    /\ lk' = [lk EXCEPT !.readers[t] = @ + 1, !.prog = Advance(t)]
    /\ LockFrame

RUnlockMobs(t) ==
    /\ NextInstr(t) = <<"RUnlock", "mobs">>
    /\ lk' = [lk EXCEPT !.readers[t] = @ - 1, !.prog = Advance(t)]
    /\ LockFrame

\* sync.RWMutex.Lock: the call announces the writer, then waits for the
\* readers that are in and for the lock itself
LockMobsCall(t) ==
    /\ NextInstr(t) = <<"Lock", "mobs">>
    /\ t \notin lk.pending
    /\ lk' = [lk EXCEPT !.pending = @ \cup {t}]
    /\ LockFrame

LockMobs(t) ==
    /\ NextInstr(t) = <<"Lock", "mobs">>
    /\ t \in lk.pending
    /\ lk.writer = Nobody
    /\ \A r \in Threads : lk.readers[r] = 0
    /\ lk' = [lk EXCEPT !.writer = t, !.pending = @ \ {t}, !.prog = Advance(t)]
    /\ LockFrame

UnlockMobs(t) ==
    /\ NextInstr(t) = <<"Unlock", "mobs">>
    /\ lk' = [lk EXCEPT !.writer = Nobody, !.prog = Advance(t)]
    /\ LockFrame

\* Conn.Write to every recipient; it returns once each of them has taken
\* the bytes
WriteStreams(t) ==
    /\ NextInstr(t)[1] = "Write"
    /\ lk.stuck \notin NextInstr(t)[2]
    /\ lk' = [lk EXCEPT !.prog = Advance(t)]
    /\ LockFrame

\* a client stops reading its connection
ClientStalls(p) ==
    /\ lk.stuck = Nobody
    /\ lk' = [lk EXCEPT !.stuck = p]
    /\ LockFrame

\* any step of a thread
ThreadStep(t) ==
    \/ LockPlayers(t) \/ UnlockPlayers(t)
    \/ RLockMobs(t) \/ RUnlockMobs(t)
    \/ LockMobsCall(t) \/ LockMobs(t) \/ UnlockMobs(t)
    \/ WriteStreams(t)

(***************************************************************************)
(* Regeneration, and the counter-swing's write of the player's HP.  Heal    *)
(* runs in the tick goroutine and ReceiveAttack in the player's pulse       *)
(* goroutine; neither takes a lock around p.HP, so the read and the write   *)
(* of "p.HP -= damage" are two steps, and so are Heal's addition and its    *)
(* range check.                                                             *)
(***************************************************************************)
NoRegs == [heal |-> "idle", swing |-> "idle", hp |-> 0, damage |-> 0]

\* the range checks that close Heal, RestoreMana and RestoreStamina
HealCheck(pl) ==
    [pl EXCEPT !.HP = IF pl.HP > pl.MaxHP THEN pl.MaxHP ELSE IF pl.HP < 0 THEN 0 ELSE pl.HP]

RestoreMana(pl, amount) ==
    [pl EXCEPT !.MP = IF pl.MP + amount > pl.MaxMP THEN pl.MaxMP
                      ELSE IF pl.MP + amount < 0 THEN 0 ELSE pl.MP + amount]

RestoreStamina(pl, amount) ==
    [pl EXCEPT !.Stamina = IF pl.Stamina + amount > pl.MaxStamina THEN pl.MaxStamina
                           ELSE IF pl.Stamina + amount < 0 THEN 0 ELSE pl.Stamina + amount]

\* RegenTick after its call of Heal: mana, then stamina
RegenRest(pl) ==
    LET mpRegen == IF (pl.INT + pl.WIS) \div 4 < 1 THEN 1 ELSE (pl.INT + pl.WIS) \div 4
        mana == IF pl.MP < pl.MaxMP THEN RestoreMana(pl, mpRegen) ELSE pl
    IN  IF mana.Stamina < mana.MaxStamina THEN RestoreStamina(mana, 10) ELSE mana

(***************************************************************************)
(* Character creation and the players table.  One new name connects; the   *)
(* session reads a line at each step.                                      *)
(***************************************************************************)
NewName == "Cy"

Names == Players \cup {NewName}

NoRow == [exists |-> FALSE]

NoPlayer == [Name |-> Nobody]

statNames == <<"STR", "DEX", "CON", "INT", "WIS", "PRE">>

Stat(str, dex, con, int, wis, pre) ==
    ("STR" :> str) @@ ("DEX" :> dex) @@ ("CON" :> con) @@
    ("INT" :> int) @@ ("WIS" :> wis) @@ ("PRE" :> pre)

BaseStats ==
    ("Human" :> Stat(10, 10, 10, 10, 10, 10)) @@
    ("Elf"   :> Stat(7, 12, 8, 13, 11, 10)) @@
    ("Dwarf" :> Stat(12, 8, 13, 7, 11, 8)) @@
    ("Orc"   :> Stat(14, 9, 13, 6, 7, 8))

BONUS_POINTS == 8

StartRoomID == 3700

GetBaseStats(race) ==
    IF race \in DOMAIN BaseStats THEN BaseStats[race] ELSE BaseStats["Human"]

ValidateStat(value) == value >= 3 /\ value <= 18

races == <<"Human", "Elf", "Dwarf", "Orc">>

classes == <<"Warrior", "Mage", "Rogue", "Cleric">>

\* choice[0] - '0', in a byte
ChoiceNumber(choice) ==
    LET first == CASE choice = "1" -> 49 [] choice = "2" -> 50 [] choice = "3" -> 51
                   [] choice = "4" -> 52 [] choice = "9" -> 57 [] choice = "/" -> 47
                   [] OTHER -> 120
    IN  (first - 48 + 256) % 256

\* strings.ToUpper of what is typed at the allocation prompt
ToUpper(s) ==
    CASE s = "str" -> "STR" [] s = "con" -> "CON" [] s = "done" -> "DONE"
      [] s = "luck" -> "LUCK" [] OTHER -> s

\* the Player that CreateNewCharacter returns
NewCharacter(race, class, stats) ==
    LET maxHP == CASE class = "Warrior" -> 20 + (stats["CON"] * 2)
                   [] class = "Mage" -> 15 + stats["CON"]
                   [] class = "Rogue" -> 18 + ((stats["CON"] + stats["DEX"]) \div 2)
                   [] class = "Cleric" -> 18 + ((stats["CON"] + stats["WIS"]) \div 2)
                   [] OTHER -> 0
        maxMP == CASE class = "Warrior" -> 10 + stats["WIS"]
                   [] class = "Mage" -> 20 + (stats["INT"] * 2)
                   [] class = "Rogue" -> 15 + stats["INT"]
                   [] class = "Cleric" -> 18 + ((stats["WIS"] + stats["INT"]) \div 2)
                   [] OTHER -> 0
    IN  [Name |-> NewName, Race |-> race, Class |-> class, Room |-> StartRoomID,
         Stats |-> stats, Level |-> 1, XP |-> 0, NextLevelXP |-> 1000,
         HP |-> maxHP, MaxHP |-> maxHP, MP |-> maxMP, MaxMP |-> maxMP,
         Stamina |-> 100, MaxStamina |-> 100]

\* the row CreatePlayer inserts; room_id takes the column's default
CreatePlayer(race, class, stats) ==
    [exists |-> TRUE, race |-> race, class |-> class, stats |-> stats,
     level |-> 1, xp |-> 0, next_level_xp |-> 1000, hp |-> 100, max_hp |-> 100,
     mp |-> 100, max_mp |-> 100, stamina |-> 100, max_stamina |-> 100]

\* the Player handleConnection builds from LoadPlayer's row
LoadPlayer(name, row, roomID) ==
    [Name |-> name, Race |-> row.race, Class |-> row.class, Room |-> roomID,
     Stats |-> row.stats, Level |-> row.level, XP |-> row.xp,
     NextLevelXP |-> row.next_level_xp, HP |-> row.hp, MaxHP |-> row.max_hp,
     MP |-> row.mp, MaxMP |-> row.max_mp, Stamina |-> row.stamina,
     MaxStamina |-> row.max_stamina]

\* the row of a player of the running game, as its last save left it
SavedRow(pl) ==
    [exists |-> TRUE, race |-> "Human", class |-> "Warrior",
     stats |-> [BaseStats["Human"] EXCEPT !["CON"] = pl.CON, !["INT"] = pl.INT,
                                          !["WIS"] = pl.WIS],
     level |-> pl.Level, xp |-> pl.XP, next_level_xp |-> pl.NextLevelXP,
     hp |-> pl.HP, max_hp |-> pl.MaxHP, mp |-> pl.MP, max_mp |-> pl.MaxMP,
     stamina |-> pl.Stamina, max_stamina |-> pl.MaxStamina]

NoCreation ==
    [pc |-> "name", race |-> "", class |-> "", stats |-> BaseStats["Human"],
     remainingPoints |-> 0, player |-> NoPlayer, held |-> NoPlayer]

CreationStep(resp, input) ==
    /\ Did("create", NewName, <<input>>, resp, {})
    /\ UNCHANGED <<doorVars, activePlayers, mobVars, threadVars, tm, lk, regs,
                   activeNames, sched, loader, flightVars>>

\* handleConnection from the name prompt: a known name is loaded, an
\* unknown one answers yes and is led to CreateNewCharacter
Connect ==
    /\ creation.pc \in {"name", "closed"}
    /\ IF db[NewName].exists
       THEN /\ creation' = [creation EXCEPT !.pc = "play",
                              !.player = LoadPlayer(NewName, db[NewName], dbRoom[NewName])]
            /\ CreationStep("Welcome back!", NewName)
       ELSE /\ creation' = [NoCreation EXCEPT !.pc = "race"]
            /\ CreationStep("Choose your race:", "yes")
    /\ UNCHANGED <<db, dbRoom>>

ChooseRace(input) ==
    LET num == ChoiceNumber(input)
    IN  /\ creation.pc = "race"
        /\ IF num >= 1 /\ num <= 4
           THEN /\ creation' = [creation EXCEPT !.pc = "class", !.race = races[num]]
                /\ CreationStep("Choose your class:", input)
           ELSE /\ CreationStep("Invalid choice. Please try again.", input)
                /\ UNCHANGED creation
        /\ UNCHANGED <<db, dbRoom>>

ChooseClass(input) ==
    LET num == ChoiceNumber(input)
    IN  /\ creation.pc = "class"
        /\ IF num >= 1 /\ num <= 4
           THEN /\ creation' = [creation EXCEPT !.pc = "alloc", !.class = classes[num],
                                  !.stats = GetBaseStats(creation.race),
                                  !.remainingPoints = BONUS_POINTS]
                /\ CreationStep("You have bonus points to allocate.", input)
           ELSE /\ CreationStep("Invalid choice. Please try again.", input)
                /\ UNCHANGED creation
        /\ UNCHANGED <<db, dbRoom>>

\* the end of CreateNewCharacter: the row, then the Player
FinishCreation(c, resp, input) ==
    /\ creation' = [c EXCEPT !.pc = "play",
                              !.player = NewCharacter(c.race, c.class, c.stats)]
    /\ db' = [db EXCEPT ![NewName] = CreatePlayer(c.race, c.class, c.stats)]
    /\ dbRoom' = [dbRoom EXCEPT ![NewName] = StartRoomID]
    /\ CreationStep(resp, input)

\* one line read by the allocation loop, without the check of ValidateStat
Allocate_NoValidate(typed) ==
    LET input == ToUpper(typed)
        raised == [creation EXCEPT !.stats[input] = @ + 1, !.remainingPoints = @ - 1]
    IN  /\ creation.pc = "alloc"
        /\ IF input = "DONE" THEN FinishCreation(creation, "Character created!", typed)
           ELSE IF input \notin DOMAIN creation.stats
           THEN /\ CreationStep("Invalid stat. Please try again.", typed)
                /\ UNCHANGED <<creation, db, dbRoom>>
           ELSE IF raised.remainingPoints > 0
           THEN /\ creation' = raised
                /\ CreationStep("raised", typed)
                /\ UNCHANGED <<db, dbRoom>>
           ELSE FinishCreation(raised, "raised", typed)

\* one line read by the allocation loop
Allocate(typed) ==
    LET input == ToUpper(typed)
        raised == [creation EXCEPT !.stats[input] = @ + 1, !.remainingPoints = @ - 1]
    IN  /\ creation.pc = "alloc"
        /\ IF input = "DONE" THEN FinishCreation(creation, "Character created!", typed)
           ELSE IF input \notin DOMAIN creation.stats
           THEN /\ CreationStep("Invalid stat. Please try again.", typed)
                /\ UNCHANGED <<creation, db, dbRoom>>
           ELSE IF ~ValidateStat(creation.stats[input] + 1)
           THEN /\ CreationStep("Cannot increase stat above 18.", typed)
                /\ UNCHANGED <<creation, db, dbRoom>>
           ELSE IF raised.remainingPoints > 0
           THEN /\ creation' = raised
                /\ CreationStep("raised", typed)
                /\ UNCHANGED <<db, dbRoom>>
           ELSE FinishCreation(raised, "raised", typed)

\* the connection drops: a read fails in CreateNewCharacter or in playGame
Hangup ==
    /\ creation.pc \in {"race", "class", "alloc", "play"}
    /\ creation' = [creation EXCEPT !.pc = "closed", !.player = NoPlayer,
                      !.held = IF creation.pc = "play" /\ creation.held = NoPlayer
                               THEN creation.player ELSE @]
    /\ CreationStep("", "")
    /\ UNCHANGED <<db, dbRoom>>

(***************************************************************************)
(* Loading the area files.  LoadAreas reads the directory, which os.ReadDir *)
(* returns sorted by name, and loads one file after the other.              *)
(***************************************************************************)
NoDoor == [Exists |-> FALSE]

\* an exit as the YAML of an area file gives it
FileExit(id, door) == [ID |-> id, Door |-> door]

FileDoor(locked, closed) == [Exists |-> TRUE, Locked |-> locked, Closed |-> closed]

NoLoader == [files |-> <<>>, todo |-> <<>>, rooms |-> <<>>]

\* the loop over area.Rooms that enters the rooms: every door starts closed
EnterRooms(rs, area) ==
    [id \in DOMAIN rs \cup DOMAIN area |->
        IF id \in DOMAIN area
        THEN [d \in DOMAIN area[id] |->
                 IF area[id][d].Door.Exists
                 THEN [area[id][d] EXCEPT !.Door.Closed = TRUE] ELSE area[id][d]]
        ELSE rs[id]]

\* the body of the coherence loop for one exit of one room of the area
CohereExit(rs, id, direction) ==
    LET exit == rs[id][direction]
        destRoomID == ExitRoomID(exit)
        oppositeDirection == GetOppositeDirection(direction)
        mirror == FileDoor(exit.Door.Locked, exit.Door.Closed)
    IN  IF ~exit.Door.Exists THEN rs
        ELSE IF destRoomID = NoRoom \/ destRoomID \notin DOMAIN rs THEN rs
        ELSE IF oppositeDirection \notin DOMAIN rs[destRoomID]
        THEN [rs EXCEPT ![destRoomID] =
                 @ @@ (oppositeDirection :> FileExit(IntID(id), mirror))]
        ELSE IF ~rs[destRoomID][oppositeDirection].Door.Exists
        THEN [rs EXCEPT ![destRoomID][oppositeDirection].Door = mirror]
        ELSE [rs EXCEPT ![destRoomID][oppositeDirection].Door.Closed = exit.Door.Closed,
                        ![destRoomID][oppositeDirection].Door.Locked = exit.Door.Locked]

\* the orders in which the two map iterations of the coherence loop can
\* meet the exits of the area
ExitOrders(area) ==
    LET keys == {k \in (DOMAIN area) \X {"north", "south", "east", "west", "up", "down"} :
                    k[2] \in DOMAIN area[k[1]]}
    IN  {order \in [1..Cardinality(keys) -> keys] :
            \A i, j \in 1..Cardinality(keys) : order[i] = order[j] => i = j}

\* the coherence loop, taking the exits in the given order
RECURSIVE CohereWalk(_, _)
CohereWalk(rs, order) ==
    IF order = <<>> THEN rs
    ELSE CohereWalk(CohereExit(rs, Head(order)[1], Head(order)[2]), Tail(order))

\* loadArea, for the rooms of the file
loadArea(rs, area, order) == CohereWalk(EnterRooms(rs, area), order)

\* LoadAreas: the next file of the directory
LoadAreas ==
    /\ loader.todo # <<>>
    /\ \E order \in ExitOrders(loader.files[Head(loader.todo)]) :
          loader' = [loader EXCEPT
                        !.rooms = loadArea(loader.rooms, loader.files[Head(loader.todo)], order),
                        !.todo = Tail(@)]
    /\ Did("loadArea", Nobody, <<Head(loader.todo)>>, "", {})
    /\ UNCHANGED <<doorVars, playerVars, mobVars, threadVars, tm, lk, regs,
                   creation, db, activeNames, sched, flightVars>>

(***************************************************************************)
(* The index of active sessions.                                           *)
(***************************************************************************)
\* The connections of the listener, each with a reader and a Player of its
\* own; a connection may give any name that the store knows.
MaxConns == 3

Conns == 1..MaxConns

NoConn == [pc |-> "closed", name |-> Nobody]

\* handleConnection from the name prompt to the call of playGame: the Player
\* is built from the row of the name and AddPlayer enters it under the name
AddPlayer(c, name) ==
    /\ conns[c].pc = "closed"
    /\ conns' = [conns EXCEPT ![c] = [pc |-> "play", name |-> name]]
    /\ index' = [index EXCEPT ![name] = c]
    /\ Did("AddPlayer", name, <<>>, "", {n \in Players : index[n] # 0} \ {name})
    /\ UNCHANGED <<doorVars, playerVars, mobVars, threadVars, tm, lk, regs,
                   creation, db, activeNames, sched, loader, mobMove, respawning>>

\* playGame returns to handleConnection (quit, or the read fails), which
\* deletes the entry under the name of its Player
EndSession(c) ==
    /\ conns[c].pc = "play"
    /\ conns' = [conns EXCEPT ![c] = NoConn]
    /\ index' = [index EXCEPT ![conns[c].name] = 0]
    /\ Did("RemovePlayer", conns[c].name, <<>>, "",
           {n \in Players : index[n] # 0} \ {conns[c].name})
    /\ UNCHANGED <<doorVars, playerVars, mobVars, threadVars, tm, lk, regs,
                   creation, db, activeNames, sched, loader, mobMove, respawning>>

\* AddPlayer and RemovePlayer between the steps of playersMutex: the write
\* to the map is the step between Lock and the deferred Unlock
AddPlayerLocks ==
    << <<"Lock", "players">>, <<"Store", "index">>, <<"Unlock", "players">> >>

RemovePlayerLocks ==
    << <<"Lock", "players">>, <<"Delete", "index">>, <<"Unlock", "players">> >>

IndexFrame ==
    UNCHANGED <<doorVars, playerVars, mobVars, threadVars, tm, regs, creation, db,
                activeNames, sched, loader, mobMove, respawning, last>>

\* handleConnection of a connection that gave the name p reaches AddPlayer
BeginAddPlayer(p) ==
    /\ ~Busy(p)
    /\ index[p] = 0
    /\ \A c \in Conns : conns[c].name # p
    /\ \E c \in Conns :
          /\ conns[c].pc = "closed"
          /\ conns' = [conns EXCEPT ![c] = [pc |-> "login", name |-> p]]
    /\ lk' = [lk EXCEPT !.prog[p] = AddPlayerLocks]
    /\ UNCHANGED index
    /\ IndexFrame

\* activePlayers[player.Name] = player
StoreIndex(p) ==
    /\ NextInstr(p) = <<"Store", "index">>
    /\ \E c \in Conns :
          /\ conns[c] = [pc |-> "login", name |-> p]
          /\ conns' = [conns EXCEPT ![c].pc = "play"]
          /\ index' = [index EXCEPT ![p] = c]
    /\ lk' = [lk EXCEPT !.prog = Advance(p)]
    /\ IndexFrame

\* playGame has returned to handleConnection, which reaches RemovePlayer
BeginRemovePlayer(p) ==
    /\ ~Busy(p)
    /\ index[p] # 0
    /\ lk' = [lk EXCEPT !.prog[p] = RemovePlayerLocks]
    /\ UNCHANGED <<conns, index>>
    /\ IndexFrame

\* delete(activePlayers, player.Name)
DeleteIndex(p) ==
    /\ NextInstr(p) = <<"Delete", "index">>
    /\ conns' = [conns EXCEPT ![index[p]] = NoConn]
    /\ index' = [index EXCEPT ![p] = 0]
    /\ lk' = [lk EXCEPT !.prog = Advance(p)]
    /\ IndexFrame

\* a command of a session that is in the index
IndexCommand(p, command) ==
    /\ index[p] # 0
    /\ BeginCommand(p, command)

(***************************************************************************)
(* The tick callbacks that main registers: regeneration, and the reset     *)
(* counter.  ScheduleResets is called from nowhere, so its callback (door  *)
(* and entity reset on 15, AutoSaveAllPlayers on 5) is not among them.     *)
(***************************************************************************)
MaxTicks == 16

\* ticks counts the runs of the callback; ran is what its last run called, in order
NewSchedule == [ticks |-> 0, tickCounter |-> 0, ran |-> <<>>]

\* the reset callback of main, once per tick
ResetTick ==
    LET counter == sched.tickCounter + 1
    IN  /\ sched.ticks < MaxTicks
        /\ IF counter >= 5
           THEN /\ sched' = [ticks |-> sched.ticks + 1, tickCounter |-> 0,
                             ran |-> <<"ProcessMobResets">>]
                /\ \E w \in ProcessMobResetsWalk(MobWorld,
                               {mobResets[i].MobVnum : i \in 1..Len(mobResets)}) :
                      /\ w.nextMobInstanceID <= MaxMobInstances + 1
                      /\ SetMobWorld(w)
                /\ UNCHANGED awards
           ELSE /\ sched' = [ticks |-> sched.ticks + 1, tickCounter |-> counter,
                             ran |-> <<>>]
                /\ UNCHANGED mobVars
        /\ Did("tick", Nobody, <<>>, "", {})
        /\ UNCHANGED <<doorVars, playerVars, threadVars, tm, lk, regs,
                       creation, db, activeNames, loader, flightVars>>

(***************************************************************************)
(* The state after start-up: the areas are loaded with every door closed,  *)
(* ProcessMobResets has run once, two players have logged in.              *)
(***************************************************************************)
Player(room) ==
    [Room |-> room, InCombat |-> FALSE, Target |-> 0, IsDead |-> FALSE,
     HP |-> 2, MaxHP |-> 5, MP |-> 4, MaxMP |-> 9, Level |-> 4, XP |-> 0,
     NextLevelXP |-> calculateNextLevelXP(4), CON |-> 10, INT |-> 10, WIS |-> 10,
     Stamina |-> 95, MaxStamina |-> 100, Gold |-> 0]

InitBoot(resets, files) ==
    /\ mobResets = resets
    /\ doorClosed = [k \in DoorKeys |-> TRUE]
    /\ activePlayers = [p \in Players |-> Player(3054)]
    /\ dbRoom = [n \in Names |-> IF n \in Players THEN 3054 ELSE NoRoom]
    /\ \E w \in ProcessMobResetsWalk(EmptyMobWorld,
                                     {mobResets[i].MobVnum : i \in 1..Len(mobResets)}) :
          /\ mobs = w.mobs
          /\ mobInstances = w.mobInstances
          /\ worldMobCounts = w.worldMobCounts
          /\ roomMobs = w.roomMobs
          /\ nextMobInstanceID = w.nextMobInstanceID
    /\ awards = [i \in 1..MaxMobInstances |-> 0]
    /\ pulse = [p \in Players |-> "idle"]
    /\ respawn = [p \in Players |-> 0]
    /\ session = [p \in Players |-> [pc |-> "idle", input |-> <<>>]]
    /\ tm = NewTimeManager
    /\ lk = NewLocks
    /\ regs = [p \in Players |-> NoRegs]
    /\ creation = NoCreation
    /\ db = [n \in Names |-> IF n \in Players THEN SavedRow(Player(3054)) ELSE NoRow]
    /\ activeNames = Players
    /\ sched = NewSchedule
    /\ loader = files
    /\ mobMove = NoMove
    /\ respawning = [p \in Players |-> "idle"]
    /\ conns = [c \in Conns |-> NoConn]
    /\ index = [n \in Players |-> 0]
    /\ last = [op |-> "start", who |-> Nobody, input |-> <<>>, resp |-> "", to |-> {}]

InitWith(resets) == InitBoot(resets, NoLoader)

Init == InitWith(AreaResets)

(***************************************************************************)
(* Doors and movement, one whole command or reset cycle at a time.         *)
(***************************************************************************)
DoorInputs ==
    { <<"open">>, <<"open", "north">>, <<"open", "Door">>, <<"open", "east">>,
      <<"open", "west">>, <<"open", "window">>, <<"open", "d">>,
      <<"close", "north">>, <<"close", "s">>, <<"close", "Door">>, <<"close", "up">>,
      <<"close", "west">>,
      <<"north">>, <<"NORTH">>, <<"s">>, <<"up">>, <<"east">>, <<"west">>,
      <<"north", "now">>, <<"goto">>, <<"goto", "3002">>, <<"goto", "7777">>,
      <<"goto", "abc">>, <<"dance">> }

NextDoors ==
    \/ \E p \in Players, input \in DoorInputs, dbOk \in BOOLEAN : HandleCommand(p, input, dbOk)
    \/ ResetDoors

SpecDoors == Init /\ [][NextDoors]_vars

\* Doors addressed by direction, by alias and by keyword, from both sides of
\* the gate, the hatch and the locked vault door.
DoorRuleInputs ==
    { <<"open", "north">>, <<"open", "s">>, <<"open", "Door">>, <<"open", "hatch">>,
      <<"open", "east">>, <<"open", "w">>, <<"open", "vault">>, <<"open", "Vault">>,
      <<"close", "north">>, <<"close", "s">>, <<"close", "Door">>, <<"close", "gate">>,
      <<"close", "east">>, <<"close", "vault">>,
      <<"goto", "3001">>, <<"goto", "3002">>, <<"goto", "3054">> }

DoorRuleCommand(p, input) == HandleCommand(p, input, TRUE)

NextDoorRules == \E p \in Players, input \in DoorRuleInputs : DoorRuleCommand(p, input)

SpecDoorRules == Init /\ [][NextDoorRules]_vars

(***************************************************************************)
(* Combat under concurrency.  The session goroutine and the goroutines of  *)
(* the pulse callback share the Player without a lock, so a command is two *)
(* steps (HandleCommand up to the handler; the handler) and a pulse update *)
(* three (the checks of PulseUpdate; ExecuteAttack; ReceiveAttack after    *)
(* the 100 ms sleep).  Die ends in ScheduleRespawn, which sleeps 5 s in    *)
(* the goroutine that called it.                                           *)
(***************************************************************************)
MaxRespawnTimers == 1

CommandBegin(p, input) ==
    /\ session[p].pc = "idle"
    /\ IF Gate(p, input) = "run"
       THEN /\ session' = [session EXCEPT ![p] = [pc |-> "handler", input |-> input]]
            /\ Did("gate", p, input, "", {})
            /\ UNCHANGED <<doorVars, playerVars, mobVars, pulse, respawn, tm, lk, regs, bootVars>>
       ELSE /\ HandleCommandGate(p, input)
            /\ UNCHANGED session

CommandRun(p, dbOk) ==
    /\ session[p].pc = "handler"
    /\ RunHandler(p, session[p].input, dbOk)
    /\ session' = [session EXCEPT ![p] = [pc |-> "idle", input |-> <<>>]]

(***************************************************************************)
(* Open and close between their writes.  No lock guards a door: the tests  *)
(* of the handler, the write to the local side, the write SynchronizeDoor  *)
(* makes to the reverse side, and the broadcast with the reply are steps   *)
(* of the session goroutine that the steps of other sessions may separate. *)
(***************************************************************************)
\* what the tests of handleOpen and handleClose come to: the reply of an
\* early return, or the exit whose door the handler goes on to write
DoorVerdicts(p, input) ==
    LET room    == activePlayers[p].Room
        exits   == rooms[room].Exits
        target  == DoorTarget(input)
        opening == ToLower(input[1]) = "open"
        Reply(resp) == [resp |-> resp, d |-> ""]
        At(d) ==
            IF opening
            THEN IF ~doorClosed[<<room, d>>] THEN Reply("The door is already open.")
                 ELSE IF exits[d].Locked THEN Reply("The door is locked.")
                 ELSE [resp |-> "", d |-> d]
            ELSE IF doorClosed[<<room, d>>] THEN Reply("The door is already closed.")
                 ELSE [resp |-> "", d |-> d]
    IN  IF Len(input) < 2 THEN {Reply(IF opening THEN "Open what?" ELSE "Close what?")}
        ELSE IF target \in DOMAIN exits
        THEN IF ~exits[target].HasDoor THEN {Reply("There is no door.")}
             ELSE {At(target)}
        ELSE IF DoorsByKeyword(room, target) = {}
             THEN {Reply("You don't see that here.")}
        ELSE {At(d) : d \in DoorsByKeyword(room, target)}

DoorStepFrame == UNCHANGED <<playerVars, mobVars, pulse, respawn, tm, lk, regs, bootVars>>

\* HandleCommand, and handleOpen or handleClose down to its last test
DoorCheck(p, input) ==
    /\ session[p].pc = "idle"
    /\ Gate(p, input) = "run"
    /\ \E v \in DoorVerdicts(p, input) :
          IF v.d = ""
          THEN Say(p, input, v.resp) /\ UNCHANGED session
          ELSE /\ session' = [session EXCEPT ![p] =
                                 [pc |-> "local", input |-> input,
                                  door |-> <<activePlayers[p].Room, v.d>>]]
               /\ Did("tests", p, input, "", {})
               /\ UNCHANGED doorVars
               /\ DoorStepFrame

\* exit.Door.Closed = false, or true
DoorLocalWrite(p) ==
    /\ session[p].pc = "local"
    /\ doorClosed' = [doorClosed EXCEPT ![session[p].door] =
                         ToLower(session[p].input[1]) = "close"]
    /\ session' = [session EXCEPT ![p].pc = "sync"]
    /\ Did("local", p, session[p].input, "", {})
    /\ DoorStepFrame

\* SynchronizeDoor(player.Room.ID, direction, false), or true
DoorSynchronize(p) ==
    /\ session[p].pc = "sync"
    /\ doorClosed' = SynchronizeDoor(doorClosed, session[p].door[1], session[p].door[2],
                                     ToLower(session[p].input[1]) = "close")
    /\ session' = [session EXCEPT ![p].pc = "finish"]
    /\ Did("SynchronizeDoor", p, session[p].input,
           "", SynchronizeDoorNotified(session[p].door[1], session[p].door[2]) \ {p})
    /\ DoorStepFrame

\* BroadcastToRoom and the reply
DoorFinish(p) ==
    /\ session[p].pc = "finish"
    /\ session' = [session EXCEPT ![p] = [pc |-> "idle", input |-> <<>>]]
    /\ Did("command", p, session[p].input,
           IF ToLower(session[p].input[1]) = "close" THEN "You close the door."
           ELSE "You open the door.",
           PlayersInRoom(activePlayers[p].Room) \ {p})
    /\ UNCHANGED doorVars
    /\ DoorStepFrame

PulseStep(p, resp) ==
    /\ Did("PulseUpdate", p, <<>>, resp, {})
    /\ UNCHANGED <<doorVars, dbRoom, mobVars, respawn, session, tm, lk, regs, bootVars>>

\* PulseUpdate down to the call of ExecuteAttack
PulseBegin(p) ==
    LET pl == activePlayers[p]
        target == pl.Target
    IN  /\ pulse[p] = "idle"
        /\ IF pl.IsDead \/ ~IsInCombat(p)
           THEN PulseStep(p, "") /\ UNCHANGED <<activePlayers, pulse>>
           ELSE IF mobs[target].Room = NoRoom \/ mobs[target].Room # pl.Room
           THEN /\ activePlayers' = [activePlayers EXCEPT ![p] = ExitCombat(pl)]
                /\ PulseStep(p, "Your target has left the room.")
                /\ UNCHANGED pulse
           ELSE IF mobs[target].HP <= 0
           THEN /\ activePlayers' = [activePlayers EXCEPT ![p] = ExitCombat(pl)]
                /\ PulseStep(p, "It is dead!")
                /\ UNCHANGED pulse
           ELSE /\ pulse' = [pulse EXCEPT ![p] = "attack"]
                /\ PulseStep(p, "attack")
                /\ UNCHANGED activePlayers

\* ExecuteAttack and the check that follows it
PulseAttack(p) ==
    /\ pulse[p] = "attack"
    /\ \E hitRoll \in Rolls, evadeRoll \in Rolls, critRoll \in Rolls :
          LET st == ExecuteAttack(CombatState, p, hitRoll, evadeRoll, critRoll)
          IN  /\ SetCombatState(st)
              /\ pulse' = [pulse EXCEPT ![p] =
                    IF st.players[p].InCombat /\ st.players[p].Target # 0
                    THEN "sleep" ELSE "idle"]
              /\ Did("ExecuteAttack", p, <<>>, st.resp, st.to)
    /\ UNCHANGED <<doorVars, dbRoom, respawn, session, tm, lk, regs, bootVars>>

\* after the sleep: the counter-attack, and Die when it kills
PulseCounter(p) ==
    /\ pulse[p] = "sleep"
    /\ \E evadeRoll \in Rolls, hitRoll \in Rolls, critRoll \in Rolls :
          LET pl == activePlayers[p]
              st == IF pl.Target # 0 /\ mobs[pl.Target].HP > 0
                    THEN ReceiveAttack(CombatState, p, pl.Target, evadeRoll, hitRoll, critRoll)
                    ELSE CombatState
              died == st.players[p].IsDead /\ ~pl.IsDead
          IN  /\ died => respawn[p] < MaxRespawnTimers
              /\ SetCombatState(st)
              /\ respawn' = [respawn EXCEPT ![p] = IF died THEN @ + 1 ELSE @]
              /\ Did("ReceiveAttack", p, <<>>, st.resp, st.to)
    /\ pulse' = [pulse EXCEPT ![p] = "idle"]
    /\ UNCHANGED <<doorVars, dbRoom, session, tm, lk, regs, bootVars>>

\* ScheduleRespawn once its sleep is over
ScheduleRespawn(p, dbOk) ==
    LET pl == activePlayers[p]
        startRoom == IF GetRoom(AltarRoomID) = NoRoom THEN pl.Room ELSE AltarRoomID
    IN  /\ respawn[p] > 0
        /\ respawn' = [respawn EXCEPT ![p] = @ - 1]
        /\ activePlayers' = [activePlayers EXCEPT ![p] =
              [pl EXCEPT !.IsDead = FALSE, !.HP = pl.MaxHP \div 2, !.MP = pl.MaxMP \div 2,
                         !.Room = startRoom]]
        /\ dbRoom' = IF dbOk THEN [dbRoom EXCEPT ![p] = AltarRoomID] ELSE dbRoom
        /\ Did("ScheduleRespawn", p, <<>>, "You have been resurrected!",
               (IF pl.Room # startRoom THEN RoomAudience(activePlayers, pl.Room, p) ELSE {})
               \cup RoomAudience(activePlayers, startRoom, p))
        /\ UNCHANGED <<doorVars, mobVars, pulse, session, tm, lk, regs, bootVars>>

\* ScheduleRespawn from the end of its sleep to the write of p.Room.  The
\* goroutine holds no lock, and the store is written only afterwards.
ScheduleRespawnWake(p) ==
    LET pl == activePlayers[p]
        startRoom == IF GetRoom(AltarRoomID) = NoRoom THEN pl.Room ELSE AltarRoomID
    IN  /\ respawn[p] > 0
        /\ respawning[p] = "idle"
        /\ respawn' = [respawn EXCEPT ![p] = @ - 1]
        /\ activePlayers' = [activePlayers EXCEPT ![p] =
              [pl EXCEPT !.IsDead = FALSE, !.HP = pl.MaxHP \div 2, !.MP = pl.MaxMP \div 2,
                         !.Room = startRoom]]
        /\ respawning' = [respawning EXCEPT ![p] = "moved"]
        /\ Did("ScheduleRespawn", p, <<>>, "",
               IF pl.Room # startRoom THEN RoomAudience(activePlayers, pl.Room, p) ELSE {})
        /\ UNCHANGED <<doorVars, dbRoom, mobVars, pulse, session, tm, lk, regs,
                       creation, db, activeNames, sched, loader, mobMove,
                   conns, index>>

\* ScheduleRespawn from UpdatePlayerRoom on
ScheduleRespawnSave(p, dbOk) ==
    /\ respawning[p] = "moved"
    /\ dbRoom' = IF dbOk THEN [dbRoom EXCEPT ![p] = AltarRoomID] ELSE dbRoom
    /\ respawning' = [respawning EXCEPT ![p] = "idle"]
    /\ Did("ScheduleRespawn", p, <<>>, "You have been resurrected!",
           RoomAudience(activePlayers, activePlayers[p].Room, p))
    /\ UNCHANGED <<doorVars, activePlayers, mobVars, threadVars, tm, lk, regs,
                   creation, db, activeNames, sched, loader, mobMove,
                   conns, index>>

\* Spec: one player types the whole command set and fights; the other is
\* logged in and stands in the room.  Mobs wander.
Typists == {"Ada"}

CombatInputs ==
    { <<"attack">>, <<"attack", "janitor">>, <<"kill", "2.janitor">>,
      <<"flee">>, <<"respawn">>, <<"recall">>, <<"look">>, <<"ooc">>, <<"ooc", "hi">>,
      <<"OOC", "hi">>, <<"west">>, <<"e">>, <<"goto", "3054">>, <<"dance">> }

Next ==
    \/ \E p \in Typists, input \in CombatInputs : CommandBegin(p, input)
    \/ \E p \in Typists, dbOk \in BOOLEAN : CommandRun(p, dbOk)
    \/ \E p \in Typists : PulseBegin(p)
    \/ \E p \in Typists : PulseAttack(p)
    \/ \E p \in Typists : PulseCounter(p)
    \/ \E p \in Typists, dbOk \in BOOLEAN : ScheduleRespawn(p, dbOk)
    \/ ProcessMobWandering

Spec == Init /\ [][Next]_vars

\* SpecRace: both players fight the same instances, commands and pulse
\* updates interleaved; reset cycles bring killed instances back.
RaceInputs == { <<"attack", "janitor">> }

NextRace ==
    \/ \E p \in Players, input \in RaceInputs : CommandBegin(p, input)
    \/ \E p \in Players : CommandRun(p, TRUE)
    \/ \E p \in Players : PulseBegin(p)
    \/ \E p \in Players : PulseAttack(p)
    \/ \E p \in Players : PulseCounter(p)
    \/ \E p \in Players : ScheduleRespawn(p, TRUE)
    \/ ProcessMobResets

SpecRace == Init /\ [][NextRace]_vars

\* SpecMobs: spawns, reset cycles, wandering moves and kills; commands run
\* as a whole, pulse updates step by step.
NextMobs ==
    \/ \E p \in Players, input \in RaceInputs : HandleCommand(p, input, TRUE)
    \/ \E p \in Players : PulseBegin(p)
    \/ \E p \in Players : PulseAttack(p)
    \/ \E p \in Players : PulseCounter(p)
    \/ \E p \in Players : ScheduleRespawn(p, TRUE)
    \/ ProcessMobResets
    \/ ProcessMobWandering

SpecMobs == Init /\ [][NextMobs]_vars

\* SpecResets: reset cycles under several sets of reset rules, between
\* kills and wandering moves that empty and fill the reset rooms.
ResetRuleSets ==
    { AreaResets,
      << MobReset(1, 3054, 2, 2), MobReset(1, 3002, 1, 2) >>,
      << MobReset(1, 3054, 1, 3), MobReset(1, 3002, 2, 1) >>,
      << MobReset(1, 3054, 1, 1), MobReset(2, 3001, 1, 1) >> }

InitResets == \E resets \in ResetRuleSets : InitWith(resets)

NextResets ==
    \/ \E p \in Typists, input \in RaceInputs : HandleCommand(p, input, TRUE)
    \/ \E p \in Typists : PulseBegin(p)
    \/ \E p \in Typists : PulseAttack(p)
    \/ \E p \in Typists : PulseCounter(p)
    \/ \E p \in Typists : ScheduleRespawn(p, TRUE)
    \/ ProcessMobResets
    \/ ProcessMobWandering

SpecResets == InitResets /\ [][NextResets]_vars

\* SpecWander: wandering pulses while players open and close doors and the
\* doors are reset.
WanderInputs ==
    { <<"open", "south">>, <<"open", "hatch">>, <<"close", "gate">>,
      <<"close", "down">>, <<"open", "vault">> }

NextWander ==
    \/ \E p \in Typists, input \in WanderInputs : HandleCommand(p, input, TRUE)
    \/ ResetDoors
    \/ ProcessMobWandering

SpecWander == Init /\ [][NextWander]_vars

(***************************************************************************)
(* Wandering under concurrency: the wandering callback moves an instance   *)
(* in two steps while the players attack and flee.                         *)
(***************************************************************************)
WanderRaceInputs == { <<"attack", "janitor">>, <<"flee">>, <<"west">>, <<"east">> }

WanderRaceCommand(p, input) == HandleCommand(p, input, TRUE)

NextWanderRace ==
    \/ \E p \in Players, input \in WanderRaceInputs : WanderRaceCommand(p, input)
    \/ \E id \in 1..MaxMobInstances, direction \in {"east", "west", "north"} :
            MoveMobBegin(id, direction)
    \/ MoveMobEnd

SpecWanderRace == Init /\ [][NextWanderRace]_vars

\* SpecWanderKill: the two steps of a wandering move while a player fights
\* and kills.
WanderKillCommand(p) == HandleCommand(p, <<"attack", "janitor">>, TRUE)

NextWanderKill ==
    \/ \E p \in Typists : WanderKillCommand(p)
    \/ \E p \in Typists : PulseBegin(p)
    \/ \E p \in Typists : PulseAttack(p)
    \/ \E p \in Typists : PulseCounter(p)
    \/ \E id \in 1..MaxMobInstances, direction \in {"east", "west", "north"} :
            MoveMobBegin(id, direction)
    \/ MoveMobEnd

SpecWanderKill == Init /\ [][NextWanderKill]_vars

\* SpecLocks: session commands and clock callbacks, step by step between
\* the two locks.
NextLocks ==
    \/ \E p \in Sessions, command \in SessionCommands : BeginCommand(p, command)
    \/ \E t \in Callbacks : BeginCallback(t)
    \/ \E t \in Threads : LockPlayers(t)
    \/ \E t \in Threads : UnlockPlayers(t)
    \/ \E t \in Threads : RLockMobs(t)
    \/ \E t \in Threads : RUnlockMobs(t)
    \/ \E t \in Threads : LockMobsCall(t)
    \/ \E t \in Threads : LockMobs(t)
    \/ \E t \in Threads : UnlockMobs(t)
    \/ \E t \in Threads : WriteStreams(t)

SpecLocks == Init /\ [][NextLocks]_vars

\* SpecDoorRace: two players walk between the two sides of the gate and of
\* the hatch, and open and close them write by write.
DoorRaceInputs ==
    { <<"open", "south">>, <<"open", "n">>, <<"close", "north">>, <<"close", "south">>,
      <<"open", "Door">>, <<"close", "hatch">>, <<"open", "east">>, <<"close">> }

DoorRaceMoves == { <<"south">>, <<"north">> }

DoorRaceMove(p, input) == HandleCommand(p, input, TRUE)

\* open or close typed in a room where no other session is inside an open or
\* a close: the sessions that write doors at the same time stand in
\* different rooms
DoorRaceCheck(p, input) ==
    /\ \A q \in Players \ {p} :
           session[q].pc # "idle" => activePlayers[q].Room # activePlayers[p].Room
    /\ DoorCheck(p, input)

NextDoorRace ==
    \/ \E p \in Players, input \in DoorRaceMoves : DoorRaceMove(p, input)
    \/ \E p \in Players, input \in DoorRaceInputs : DoorRaceCheck(p, input)
    \/ \E p \in Players : DoorLocalWrite(p)
    \/ \E p \in Players : DoorSynchronize(p)
    \/ \E p \in Players : DoorFinish(p)

SpecDoorRace == Init /\ [][NextDoorRace]_vars

\* C40: whenever the open and the close that two players on the two sides
\* of a door ran at the same time have both completed (no session is inside
\* a command), the two sides of every door have equal closed state, however
\* the local writes and the reverse-side writes were interleaved.
C40_SidesEqualAfterRace ==
    (\A p \in Players : session[p].pc = "idle") =>
        \A k \in DoorKeys :
            ReverseDoor(k[1], k[2]) # <<>> =>
                doorClosed[k] = doorClosed[ReverseDoor(k[1], k[2])]

\* SpecIndex: connections enter and leave the index while sessions broadcast
\* and the clock's callbacks run, step by step between the two locks.
NextIndex ==
    \/ \E p \in Sessions : BeginAddPlayer(p)
    \/ \E p \in Sessions : StoreIndex(p)
    \/ \E p \in Sessions : BeginRemovePlayer(p)
    \/ \E p \in Sessions : DeleteIndex(p)
    \/ \E p \in Sessions, command \in SessionCommands : IndexCommand(p, command)
    \/ \E t \in Callbacks : BeginCallback(t)
    \/ \E t \in Threads : LockPlayers(t)
    \/ \E t \in Threads : UnlockPlayers(t)
    \/ \E t \in Threads : RLockMobs(t)
    \/ \E t \in Threads : RUnlockMobs(t)
    \/ \E t \in Threads : LockMobsCall(t)
    \/ \E t \in Threads : LockMobs(t)
    \/ \E t \in Threads : UnlockMobs(t)
    \/ \E t \in Threads : WriteStreams(t)

SpecIndex == Init /\ [][NextIndex]_vars

\* a thread inside a loop over activePlayers that writes to the connections
\* it finds (the reply playGame sends to the session's own connection is
\* not such a loop)
Iterating(t) == NextInstr(t)[1] = "Write" /\ NextInstr(t)[2] # {t}

\* a thread inside AddPlayer or RemovePlayer, about to write to the map
WritingIndex(t) == NextInstr(t)[1] \in {"Store", "Delete"}

\* C39: no thread is inside a loop over the active-sessions index while
\* another thread is inside AddPlayer or RemovePlayer, and a thread inside
\* such a loop holds the player-set lock.
C39_IterationUnderLock ==
    \A t \in Threads :
        Iterating(t) =>
            /\ lk.players = t
            /\ \A u \in Threads : ~WritingIndex(u)

\* SpecStuck: the same, with a client that may stop reading; every thread
\* that can take a step again and again does take it.
NextStuck ==
    \/ \E p \in Players : ClientStalls(p)
    \/ NextLocks

SpecStuck ==
    Init /\ [][NextStuck]_vars /\ \A t \in Threads : SF_vars(ThreadStep(t))

\* SpecXP: experience from gainxp and from kills.  The level is capped and
\* an amount below zero is typed only while the experience is not negative.
MaxLevel == 5

XPInputs ==
    { <<"gainxp", "5500">>, <<"gainxp", "13000">>, <<"gainxp", "-13000">>,
      <<"gainxp", "abc">>, <<"gainxp">>, <<"attack", "janitor">> }

XPCommand(p, input) ==
    /\ activePlayers[p].Level < MaxLevel
    /\ activePlayers[p].XP >= 0
    /\ HandleCommand(p, input, TRUE)

NextXP ==
    \/ \E p \in Typists, input \in XPInputs : XPCommand(p, input)
    \/ \E p \in Typists : PulseBegin(p)
    \/ \E p \in Typists : PulseAttack(p)
    \/ \E p \in Typists : PulseCounter(p)
    \/ \E p \in Typists : ScheduleRespawn(p, TRUE)

SpecXP == Init /\ [][NextXP]_vars

RegenStep(p, resp) ==
    /\ Did("RegenTick", p, <<>>, resp, {})
    /\ UNCHANGED <<doorVars, dbRoom, mobVars, threadVars, tm, lk, bootVars>>

\* RegenTick down to the addition in Heal
RegenTickBegin(p) ==
    LET pl == activePlayers[p]
        hpRegen == IF pl.CON \div 2 < 1 THEN 1 ELSE pl.CON \div 2
    IN  /\ regs[p].heal = "idle"
        /\ IF pl.HP <= 0
           THEN RegenStep(p, "") /\ UNCHANGED <<activePlayers, regs>>
           ELSE IF pl.HP < pl.MaxHP
           THEN /\ activePlayers' = [activePlayers EXCEPT ![p].HP = @ + hpRegen]
                /\ regs' = [regs EXCEPT ![p].heal = "check"]
                /\ RegenStep(p, "heal")
           ELSE /\ activePlayers' = [activePlayers EXCEPT ![p] = RegenRest(pl)]
                /\ RegenStep(p, "regen")
                /\ UNCHANGED regs

\* Heal's range check and the rest of RegenTick
RegenTickEnd(p) ==
    /\ regs[p].heal = "check"
    /\ activePlayers' = [activePlayers EXCEPT ![p] = RegenRest(HealCheck(@))]
    /\ regs' = [regs EXCEPT ![p].heal = "idle"]
    /\ RegenStep(p, "regen")

\* ReceiveAttack down to the read of p.HP, on a swing that hits
ReceiveAttackLoad(p) ==
    LET pl == activePlayers[p]
        attacker == pl.Target
    IN  /\ pulse[p] = "sleep"
        /\ regs[p].swing = "idle"
        /\ pl.InCombat /\ attacker # 0 /\ ~pl.IsDead
        /\ mobs[attacker].HP > 0
        /\ \E evadeRoll \in Rolls, hitRoll \in Rolls, critRoll \in Rolls :
              LET mobLevel == mobRegistry[mobs[attacker].ID].Level
              IN  /\ ~ProcessEvasion(pl.Level, mobLevel, evadeRoll)
                  /\ hitRoll <= CalculateHitChance(mobLevel, pl.Level)
                  /\ regs' = [regs EXCEPT ![p].swing = "loaded", ![p].hp = pl.HP,
                                ![p].damage = IF ProcessCriticalHit(mobLevel, pl.Level, critRoll)
                                              THEN CalculateDamage(mobLevel) * 2
                                              ELSE CalculateDamage(mobLevel)]
        /\ Did("ReceiveAttack", p, <<>>, "swing", {})
        /\ UNCHANGED <<doorVars, playerVars, mobVars, threadVars, tm, lk, bootVars>>

\* the write of p.HP, its floor at 0, and Die when nothing is left
ReceiveAttackStore(p) ==
    LET left == IF regs[p].hp - regs[p].damage < 0 THEN 0 ELSE regs[p].hp - regs[p].damage
        hit == [CombatState EXCEPT !.players[p].HP = left,
                                   !.resp = "It strikes you.",
                                   !.to = RoomAudience(activePlayers, activePlayers[p].Room, p)]
        st == IF left <= 0 THEN Die(hit, p) ELSE hit
    IN  /\ pulse[p] = "sleep"
        /\ regs[p].swing = "loaded"
        /\ left <= 0 => respawn[p] < MaxRespawnTimers
        /\ SetCombatState(st)
        /\ respawn' = [respawn EXCEPT ![p] = IF left <= 0 THEN @ + 1 ELSE @]
        /\ pulse' = [pulse EXCEPT ![p] = "idle"]
        /\ regs' = [regs EXCEPT ![p] = [@ EXCEPT !.swing = "idle", !.hp = 0, !.damage = 0]]
        /\ Did("ReceiveAttack", p, <<>>, st.resp, st.to)
        /\ UNCHANGED <<doorVars, dbRoom, session, tm, lk, bootVars>>

\* SpecVitals: one player fights, levels up, dies and respawns while the
\* regeneration tick runs; Heal and ReceiveAttack step by step.
VitalsInputs == { <<"attack", "janitor">>, <<"gainxp", "5500">> }

NextVitals ==
    \/ \E p \in Typists, input \in VitalsInputs : XPCommand(p, input)
    \/ \E p \in Typists : PulseBegin(p)
    \/ \E p \in Typists : PulseAttack(p)
    \/ \E p \in Typists : ReceiveAttackLoad(p)
    \/ \E p \in Typists : ReceiveAttackStore(p)
    \/ \E p \in Typists : ScheduleRespawn(p, TRUE)
    \/ \E p \in Typists : RegenTickBegin(p)
    \/ \E p \in Typists : RegenTickEnd(p)

SpecVitals == Init /\ [][NextVitals]_vars

\* SpecCounter: both players fight the same instances; the counter-attack
\* runs either undisturbed or, on a swing that hits, step by step.
CounterCommand(p) == HandleCommand(p, <<"attack", "janitor">>, TRUE)

CounterWhole(p) == regs[p].swing = "idle" /\ PulseCounter(p)

NextCounter ==
    \/ \E p \in Players : CounterCommand(p)
    \/ \E p \in Players : PulseBegin(p)
    \/ \E p \in Players : PulseAttack(p)
    \/ \E p \in Players : CounterWhole(p)
    \/ \E p \in Players : ReceiveAttackLoad(p)
    \/ \E p \in Players : ReceiveAttackStore(p)

SpecCounter == Init /\ [][NextCounter]_vars

\* SpecSwing: a fight with the rolls of every swing on record: what the
\* random source gave for the hit, for the evasion and for the critical hit
\* had the routine asked for each.
SwingCommand(p) == HandleCommand(p, <<"attack", "janitor">>, TRUE)

\* ExecuteAttack and the check that follows it, under the rolls given
SwingAt(p, hitRoll, evadeRoll, critRoll) ==
    LET st == ExecuteAttack(CombatState, p, hitRoll, evadeRoll, critRoll)
    IN  /\ pulse[p] = "attack"
        /\ SetCombatState(st)
        /\ pulse' = [pulse EXCEPT ![p] =
              IF st.players[p].InCombat /\ st.players[p].Target # 0 THEN "sleep" ELSE "idle"]
        /\ Did("ExecuteAttack", p, <<hitRoll, evadeRoll, critRoll>>, st.resp, st.to)
        /\ UNCHANGED <<doorVars, dbRoom, respawn, session, tm, lk, regs, bootVars>>

\* the counter-attack after the sleep, under the rolls given
CounterAt(p, hitRoll, evadeRoll, critRoll) ==
    LET pl == activePlayers[p]
        st == IF pl.Target # 0 /\ mobs[pl.Target].HP > 0
              THEN ReceiveAttack(CombatState, p, pl.Target, evadeRoll, hitRoll, critRoll)
              ELSE CombatState
        died == st.players[p].IsDead /\ ~pl.IsDead
    IN  /\ pulse[p] = "sleep"
        /\ died => respawn[p] < MaxRespawnTimers
        /\ SetCombatState(st)
        /\ respawn' = [respawn EXCEPT ![p] = IF died THEN @ + 1 ELSE @]
        /\ pulse' = [pulse EXCEPT ![p] = "idle"]
        /\ Did("ReceiveAttack", p, <<hitRoll, evadeRoll, critRoll>>, st.resp, st.to)
        /\ UNCHANGED <<doorVars, dbRoom, session, tm, lk, regs, bootVars>>

NextSwing ==
    \/ \E p \in Players : SwingCommand(p)
    \/ \E p \in Players : PulseBegin(p)
    \/ \E p \in Players, hitRoll \in Rolls, evadeRoll \in Rolls, critRoll \in Rolls :
            SwingAt(p, hitRoll, evadeRoll, critRoll)
    \/ \E p \in Players, hitRoll \in Rolls, evadeRoll \in Rolls, critRoll \in Rolls :
            CounterAt(p, hitRoll, evadeRoll, critRoll)
    \/ \E p \in Players : ScheduleRespawn(p, TRUE)

SpecSwing == Init /\ [][NextSwing]_vars

\* SpecRooms: one player moves, teleports, recalls, fights, dies and comes
\* back by command and by timer; every store write succeeds.
RoomInputs ==
    { <<"attack", "janitor">>, <<"respawn">>, <<"recall">>, <<"goto", "3002">>,
      <<"goto", "7777">>, <<"west">>, <<"e">>, <<"north">>, <<"up">> }

RoomCommand(p, input) == HandleCommand(p, input, TRUE)

NextRooms ==
    \/ \E p \in Typists, input \in RoomInputs : RoomCommand(p, input)
    \/ \E p \in Typists : PulseBegin(p)
    \/ \E p \in Typists : PulseAttack(p)
    \/ \E p \in Typists : PulseCounter(p)
    \/ \E p \in Typists : ScheduleRespawnWake(p)
    \/ \E p \in Typists : ScheduleRespawnSave(p, TRUE)

SpecRooms == Init /\ [][NextRooms]_vars

\* SpecCreate: a new name connects, chooses race and class, allocates its
\* bonus points, plays, drops the connection and connects again.
ChoiceInputs == {"1", "2", "3", "4", "9", "/"}

AllocInputs == {"STR", "str", "CON", "luck", "done"}

NextCreate ==
    \/ Connect
    \/ \E input \in ChoiceInputs : ChooseRace(input)
    \/ \E input \in ChoiceInputs : ChooseClass(input)
    \/ \E typed \in AllocInputs : Allocate(typed)
    \/ Hangup

SpecCreate == Init /\ [][NextCreate]_vars

\* SpecHit: CalculateHitChance called once, with any pair of levels.
MaxCombatLevel == 51

HitChanceCall(attackerLevel, defenderLevel) ==
    /\ last.op = "start"
    /\ Did("CalculateHitChance", Nobody, <<attackerLevel, defenderLevel>>,
           CalculateHitChance(attackerLevel, defenderLevel), {})
    /\ UNCHANGED <<doorVars, playerVars, mobVars, threadVars, tm, lk, regs, bootVars>>

NextHit ==
    \E attackerLevel \in 1..MaxCombatLevel, defenderLevel \in 1..MaxCombatLevel :
        HitChanceCall(attackerLevel, defenderLevel)

SpecHit == Init /\ [][NextHit]_vars

\* SpecLoad: LoadAreas over two area files, midgaard.yml with rooms 3001
\* and 3002 and other.yml with room 9001.  Each of four exits is absent,
\* plain, or carries a door, locked or not, with closed given or left out.
NoExit == FileExit(IntID(NoRoom), NoDoor)

ExitOptions(id) ==
    {NoExit, FileExit(id, NoDoor), FileExit(id, FileDoor(FALSE, FALSE)),
     FileExit(id, FileDoor(TRUE, TRUE))}

\* the exits of a room of a file: the directions that are given
FileRoom(east, west) ==
    [d \in {x \in {"east", "west"} : (IF x = "east" THEN east ELSE west) # NoExit} |->
        IF d = "east" THEN east ELSE west]

AreaFileSets ==
    { ("midgaard.yml" :> ((3001 :> FileRoom(e1, w1)) @@ (3002 :> FileRoom(NoExit, w2)))) @@
      ("other.yml" :> (9001 :> FileRoom(e9, NoExit))) :
        e1 \in ExitOptions(IntID(3002)),
        w1 \in ExitOptions(StringID(<<"other.yml", "9001">>)),
        w2 \in ExitOptions(IntID(3001)),
        e9 \in ExitOptions(StringID(<<"midgaard.yml", "3001">>)) }

InitLoad ==
    \E files \in AreaFileSets :
        InitBoot(AreaResets, [files |-> files, todo |-> <<"midgaard.yml", "other.yml">>,
                              rooms |-> <<>>])

NextLoad == LoadAreas

SpecLoad == InitLoad /\ [][NextLoad]_vars

(***************************************************************************)
(* The play loop.  playGame reads a line, hands it to HandleCommand and    *)
(* returns when the trimmed line is "quit" or when the read fails; back in *)
(* handleConnection the player is removed from the active players and the  *)
(* others are told.  A line is the sequence of its fields, so the trimmed  *)
(* line is "quit" exactly when its fields are <<"quit">>.                  *)
(***************************************************************************)
\* one turn of the loop of playGame on a line that is not empty
playGame(p, input, dbOk) ==
    /\ session[p].pc = "idle"
    /\ p \in activeNames
    /\ IF Gate(p, input) = "run" THEN RunHandler(p, input, dbOk)
       ELSE HandleCommandGate(p, input)
    /\ session' = [session EXCEPT ![p].pc = IF input = <<"quit">> THEN "left" ELSE "idle"]

\* the read of playGame fails: the client has gone
ReadError(p) ==
    /\ session[p].pc = "idle"
    /\ p \in activeNames
    /\ session' = [session EXCEPT ![p].pc = "left"]
    /\ Did("ReadString", p, <<>>, "", {})
    /\ UNCHANGED <<doorVars, playerVars, mobVars, pulse, respawn, tm, lk, regs, bootVars>>

\* handleConnection after playGame has returned
RemovePlayer(p) ==
    /\ session[p].pc = "left"
    /\ activeNames' = activeNames \ {p}
    /\ session' = [session EXCEPT ![p].pc = "closed"]
    /\ Did("RemovePlayer", p, <<>>, "", activeNames \ {p})
    /\ UNCHANGED <<doorVars, playerVars, mobVars, pulse, respawn, tm, lk, regs, creation,
                   db, sched, loader, flightVars>>

NextConns ==
    \/ \E c \in Conns, name \in Players : AddPlayer(c, name)
    \/ \E c \in Conns : EndSession(c)

SpecConns == Init /\ [][NextConns]_vars

QuitInputs ==
    { <<"quit">>, <<"Quit">>, <<"quit", "now">>, <<"look">>, <<"gainxp", "5500">>,
      <<"attack", "janitor">> }

\* a line typed while the level leaves room for the experience it may bring
TypeLine(p, input) ==
    /\ activePlayers[p].Level < MaxLevel
    /\ playGame(p, input, TRUE)

NextQuit ==
    \/ \E p \in Players, input \in QuitInputs : TypeLine(p, input)
    \/ \E p \in Players : ReadError(p)
    \/ \E p \in Players : RemovePlayer(p)

SpecQuit == Init /\ [][NextQuit]_vars

(***************************************************************************)
(* The reset callback ticks while a player fights, so that the resets it   *)
(* runs find entities to bring back.                                       *)
(***************************************************************************)
TickCommand(p) == HandleCommand(p, <<"attack", "janitor">>, TRUE)

NextTicks ==
    \/ ResetTick
    \/ \E p \in Typists : TickCommand(p)
    \/ \E p \in Typists : PulseBegin(p)
    \/ \E p \in Typists : PulseAttack(p)
    \/ \E p \in Typists : PulseCounter(p)
    \/ \E p \in Typists : ScheduleRespawn(p, TRUE)

SpecTicks == Init /\ [][NextTicks]_vars

\* SpecClock: the TimeManager alone.
NextClock ==
    \/ \E k \in Kinds : RegisterFunc(k)
    \/ Start
    \/ Stop
    \/ \E k \in Kinds : TickerFire(k)
    \/ \E k \in Kinds : TickerStop(k)
    \/ \E k \in Kinds : processEvents(k)
    \/ processEventsStop
    \/ RunCallback(FALSE)

SpecClock == Init /\ [][NextClock]_vars

\* SpecDispatch: a clock that is started and left running.
NextDispatch ==
    \/ \E k \in Kinds : RegisterFunc(k)
    \/ Start
    \/ \E k \in Kinds : TickerFire(k)
    \/ \E k \in Kinds : processEvents(k)
    \/ \E failed \in BOOLEAN : RunCallback(failed)

SpecDispatch == Init /\ [][NextDispatch]_vars

MoveDirection(input) ==
    IF LowerLine(input) \in DOMAIN DirectionAliases
    THEN DirectionAliases[LowerLine(input)] ELSE LowerLine(input)

\* the player's command is a direction whose exit has a closed door
AtClosedDoor(p, input) ==
    /\ <<activePlayers[p].Room, MoveDirection(input)>> \in DoorKeys
    /\ doorClosed[<<activePlayers[p].Room, MoveDirection(input)>>]

\* C8: a direction command through an exit whose door is closed is
\* rejected: the player's room is the same afterwards, in memory and in the
\* store.
C8_ClosedDoorBlocks ==
    [][\A p \in Players :
          (last'.op = "command" /\ last'.who = p /\ AtClosedDoor(p, last'.input))
          => /\ activePlayers'[p].Room = activePlayers[p].Room
             /\ dbRoom'[p] = dbRoom[p]
             /\ last'.resp # "You move."]_vars

(***************************************************************************)
(* Properties of the registry, combat, death and the clock.                *)
(***************************************************************************)
\* the instances of a template over all room lists
Occupancy(mobID) ==
    Cardinality({ri \in RoomIDs \X (1..MaxMobInstances) :
                    /\ ri[2] <= Len(roomMobs[ri[1]])
                    /\ mobs[roomMobs[ri[1]][ri[2]]].ID = mobID})

\* C2: for every template, the number of its instances over all the room
\* occupancy lists equals the world count kept for it, after any spawns,
\* reset cycles, wandering moves and kills.
C2_CountsMatchOccupancy ==
    \A mobID \in DOMAIN mobRegistry : worldMobCounts[mobID] = Occupancy(mobID)

\* C3: no player is dead and in combat at once, however the player's
\* commands and pulse updates interleave.
C3_NeverDeadInCombat ==
    \A p \in Players : ~(activePlayers[p].IsDead /\ IsInCombat(p))

\* the instance is in some room's list
InSomeRoom(id) ==
    \E r \in RoomIDs : \E i \in 1..Len(roomMobs[r]) : roomMobs[r][i] = id

\* C4: an instance brought to zero hit points or below is destroyed exactly
\* once: it is awarded once, it is in no room list and not in the registry,
\* and each template's world count has gone down by one per destroyed
\* instance, also when two players fight the same instance.
C4_DestroyedOnce ==
    /\ \A id \in DOMAIN mobs :
          /\ awards[id] <= 1
          /\ mobs[id].HP <= 0 => awards[id] = 1 /\ id \notin mobInstances /\ ~InSomeRoom(id)
    /\ \A mobID \in DOMAIN mobRegistry :
          worldMobCounts[mobID] =
              Cardinality({id \in DOMAIN mobs : mobs[id].ID = mobID /\ awards[id] = 0})

\* the player's target is in the list of the player's room
TargetInRoom(p) ==
    \E i \in 1..Len(roomMobs[activePlayers[p].Room]) :
        roomMobs[activePlayers[p].Room][i] = activePlayers[p].Target

\* C5: a pulse update that starts while the player is in combat with a
\* target that is not in the player's room takes the player out of combat
\* and swings at nothing.
C5_StaleTargetDropped ==
    [][\A p \in Players :
          (/\ last'.op = "PulseUpdate" /\ last'.who = p
           /\ IsInCombat(p) /\ ~TargetInRoom(p))
          => /\ ~activePlayers'[p].InCombat
             /\ pulse'[p] = "idle"
             /\ mobs' = mobs]_vars

\* the step is a respawn of p: the command, or the timer of ScheduleRespawn
Respawned(p) ==
    /\ last'.who = p
    /\ \/ last'.op = "ScheduleRespawn"
       \/ last'.op = "command" /\ ToLower(last'.input[1]) = "respawn" /\ activePlayers[p].IsDead

\* C6: after a respawn, by command or by timer, the player is not dead,
\* stands in the configured respawn room with half the maximum health and
\* mana, and the stored room is that room.
C6_RespawnInRespawnRoom ==
    [][\A p \in Players :
          Respawned(p)
          => /\ ~activePlayers'[p].IsDead
             /\ activePlayers'[p].Room = RespawnRoomID
             /\ activePlayers'[p].HP = activePlayers'[p].MaxHP \div 2
             /\ activePlayers'[p].MP = activePlayers'[p].MaxMP \div 2
             /\ dbRoom'[p] = RespawnRoomID]_vars

\* the step is HandleCommand taking a line from p, who is dead, that is not
\* look, score, quit or respawn
DeadInput(p) ==
    /\ activePlayers[p].IsDead
    /\ session[p].pc = "idle"
    /\ last'.who = p
    /\ last'.op \in {"gate", "command"}
    /\ ToLower(last'.input[1]) \notin AllowedWhenDead

\* C7: a line from a dead player other than look, score, quit and respawn
\* is answered with the fixed rejection, changes no player and no world
\* state, and nothing is sent to the other players.
C7_DeadInputRejected ==
    [][\A p \in Players :
          DeadInput(p)
          => /\ last'.op = "command"
             /\ last'.resp = DeadRejection
             /\ last'.to = {}
             /\ UNCHANGED <<doorVars, playerVars, mobVars, threadVars>>]_vars

\* the step runs the handler of a direction command or of recall for p
MoveOrRecall(p) ==
    /\ session[p].pc = "handler"
    /\ last'.op = "command" /\ last'.who = p
    /\ last'.input = session[p].input
    /\ ToLower(last'.input[1]) \in
          {"north", "south", "east", "west", "up", "down", "n", "s", "e", "w", "u", "d", "recall"}

\* C9: a direction command or recall run while the player is in combat is
\* rejected; the room in memory, the stored room and the combat state stay
\* as they were.
C9_NoMoveInCombat ==
    [][\A p \in Players :
          (MoveOrRecall(p) /\ IsInCombat(p))
          => /\ last'.resp \in {"you can't move while in combat",
                                "You cannot recall while fighting!"}
             /\ activePlayers'[p] = activePlayers[p]
             /\ dbRoom'[p] = dbRoom[p]]_vars

\* A direction command has just been refused to a player who is fighting.
C9_Witness ==
    /\ last.op = "command"
    /\ last.resp = "you can't move while in combat"
    /\ last.who \in Players
    /\ IsInCombat(last.who)

\* C10: once Stop has returned, no registered callback is dispatched.
C10_NoDispatchAfterStop ==
    [][(tm.stopClosed /\ ~tm.running /\ ~tm.panicked)
          => ~(last'.op = "dispatch" /\ tm'.calls > tm.calls)]_vars

\* C11: Start and Stop are idempotent and never fault: Start on a running
\* clock and Stop on a stopped clock change nothing, and no call of either
\* crashes the program.
C11_StartStopIdempotent ==
    [][/\ (last'.op = "Start" /\ tm.running) => tm' = tm
       /\ (last'.op = "Stop" /\ ~tm.running) => tm' = tm
       /\ (last'.op \in {"Start", "Stop"}) => ~tm'.panicked]_vars

\* C12: a fire of a source starts every callback registered with it, and a
\* callback that panics ends alone: the program goes on, the other
\* callbacks already started stay pending, and the ticker goroutines and
\* processEvents stand where they stood, ready for later periods.
C12_CallbackIsolation ==
    [][/\ last'.op = "dispatch"
            => tm'.calls = tm.calls + tm.funcs[last'.input[1]]
       /\ last'.op = "callback"
            => /\ ~tm'.panicked
               /\ tm'.calls = tm.calls - 1
               /\ tm'.procs = tm.procs
               /\ tm'.waiting = tm.waiting
               /\ tm'.sending = tm.sending
               /\ tm'.funcs = tm.funcs]_vars

\* After a callback has panicked, a source with two callbacks fires again
\* and both are started.
C12_Witness ==
    /\ tm.recovered > 0
    /\ last.op = "dispatch"
    /\ tm.funcs[last.input[1]] = 2
    /\ tm.calls = 2

\* the instances whose room differs before and after the step
Wandered == {id \in mobInstances : mobs'[id].Room # mobs[id].Room}

C14_ResetClosesEveryDoor ==
    [][last'.op = "ResetDoors" => \A k \in DoorKeys : doorClosed'[k]]_vars

\* the rules of a template whose room exists
RulesOf(mobID) ==
    {i \in 1..Len(mobResets) :
        mobResets[i].MobVnum = mobID /\ GetRoom(mobResets[i].RoomVnum) # NoRoom}

\* the instances of a template in a room's occupancy list, now and after
\* the step
InRoom(mobID, room) == RoomCount(MobWorld, mobID, room)

InRoomNext(mobID, room) ==
    Cardinality({i \in 1..Len(roomMobs'[room]) : mobs'[roomMobs'[room][i]].ID = mobID})

\* C15: a reset cycle that creates instances of a template leaves its
\* world count at or below the largest MaxWorld of the template's rules, and
\* a room whose number of instances of the template it raised holds no more
\* of them than the limit of a rule of the template for that room.
C15_ResetsRespectLimits ==
    [][last'.op = "ProcessMobResets"
          => \A mobID \in DOMAIN mobRegistry :
                /\ worldMobCounts'[mobID] > worldMobCounts[mobID]
                      => worldMobCounts'[mobID]
                            <= MaxOf({mobResets[i].MaxWorld : i \in RulesOf(mobID)})
                /\ \A room \in RoomIDs :
                      InRoomNext(mobID, room) > InRoom(mobID, room)
                         => \E i \in RulesOf(mobID) :
                               /\ mobResets[i].RoomVnum = room
                               /\ InRoomNext(mobID, room) <= mobResets[i].Limit]_vars

\* A reset cycle has just created an instance, after an earlier one was
\* killed, and the template's world count stands at its limit.
C15_Witness ==
    /\ last.op = "ProcessMobResets"
    /\ nextMobInstanceID > 3
    /\ Cardinality(mobInstances) < nextMobInstanceID - 1
    /\ \E mobID \in DOMAIN mobRegistry :
          /\ RulesOf(mobID) # {}
          /\ worldMobCounts[mobID] = MaxOf({mobResets[i].MaxWorld : i \in RulesOf(mobID)})

\* C16: in a reset cycle with world allowance left for a template, no reset
\* room that held the template already is given another instance while a
\* reset room of the template with a positive limit still holds none.
C16_EmptyRoomsFirst ==
    [][last'.op = "ProcessMobResets"
          => \A mobID \in DOMAIN mobRegistry :
                \A i, j \in RulesOf(mobID) :
                   ~ /\ InRoom(mobID, mobResets[i].RoomVnum) >= 1
                     /\ InRoomNext(mobID, mobResets[i].RoomVnum)
                           > InRoom(mobID, mobResets[i].RoomVnum)
                     /\ mobResets[j].Limit > 0
                     /\ InRoomNext(mobID, mobResets[j].RoomVnum) = 0]_vars

\* C17: no thread stands at a write to another client's stream while it
\* holds playersMutex.
C17_NoWriteUnderPlayersLock ==
    \A t \in Threads :
       ~ /\ lk.players = t
         /\ NextInstr(t)[1] = "Write"
         /\ NextInstr(t)[2] # {}

\* the threads that have to act before the thread's next step can be taken
WaitsFor(t) ==
    IF NextInstr(t) = <<"Lock", "players">> THEN {lk.players} \ {Nobody}
    ELSE IF NextInstr(t) = <<"RLock", "mobs">> THEN ({lk.writer} \cup lk.pending) \ {Nobody}
    ELSE IF NextInstr(t) = <<"Lock", "mobs">> /\ t \in lk.pending
    THEN {r \in Threads : lk.readers[r] > 0} \cup ({lk.writer} \ {Nobody})
    ELSE {}

RECURSIVE WaitClosure(_, _)
WaitClosure(S, n) ==
    IF n = 0 THEN S ELSE WaitClosure(S \cup UNION {WaitsFor(u) : u \in S}, n - 1)

\* some threads wait for one another in a circle
WaitCycle ==
    \E t \in Threads : t \in WaitClosure(WaitsFor(t), Cardinality(Threads))

\* C19: no thread holds mobMutex twice over, as reader or as writer, and no
\* threads wait for one another on playersMutex and mobMutex.
C19_NoNestedLockNoDeadlock ==
    /\ \A t \in Threads :
          /\ lk.readers[t] <= 1
          /\ ~(lk.writer = t /\ (lk.readers[t] > 0 \/ t \in lk.pending))
    /\ ~WaitCycle

\* C18: once a client has stopped reading, an operation of any thread but
\* that client's own session still runs to its end (unless the threads are
\* caught in a circle of lock waits).
C18_StuckClientDelaysOnlyItself ==
    \A t \in Threads :
       (Busy(t) /\ lk.stuck # Nobody /\ lk.stuck # t) ~> (~Busy(t) \/ WaitCycle)

\* the step granted the player experience: a gainxp command with an amount,
\* or an attack that killed the target
GrantsXP(p) ==
    /\ last'.who = p
    /\ \/ last'.op = "command" /\ last'.resp = "Gained XP."
       \/ last'.op = "ExecuteAttack" /\ \E id \in 1..Len(mobs) : awards'[id] > awards[id]

\* C20: when a gainxp command or a kill award has completed, the player's
\* XP is below NextLevelXP.
C20_XPBelowNext ==
    [][\A p \in Players :
          GrantsXP(p) => activePlayers'[p].XP < activePlayers'[p].NextLevelXP]_vars

\* A single award has just taken the player over two level thresholds.
C20_Witness ==
    /\ last.op = "command"
    /\ last.input = <<"gainxp", "13000">>
    /\ activePlayers[last.who].Level = 6
    /\ activePlayers[last.who].XP = 500

\* C21: after any command, gainxp with any integer amount included, no
\* player's XP is below zero.
C21_XPNeverNegative ==
    [][\A p \in Players :
          (last'.op = "command" /\ last'.who = p) => activePlayers'[p].XP >= 0]_vars

\* the instances the program can still reach: those in the registry and
\* those some player holds as Target
LiveMobs ==
    mobInstances \cup ({activePlayers[p].Target : p \in Players} \ {0})

\* C22: every entity instance has 0 <= HP <= MaxHP, after spawns, player
\* swings (normal or critical) and counter-swings alike.
C22_MobHPInRange ==
    \A id \in LiveMobs \cap DOMAIN mobs :
        /\ 0 <= mobs[id].HP
        /\ mobs[id].HP <= mobRegistry[mobs[id].ID].MaxHP

\* no Heal and no ReceiveAttack of the player is under way
AtRest(p) == regs[p].heal = "idle" /\ regs[p].swing = "idle"

\* C23: once counter-swings, regeneration ticks, level-ups, deaths and
\* respawns have run to their end, in any order, the player has
\* 0 <= HP <= MaxHP, 0 <= MP <= MaxMP and 0 <= Stamina <= MaxStamina.
C23_PlayerVitalsInRange ==
    \A p \in Players :
        AtRest(p) =>
            LET pl == activePlayers[p]
            IN  /\ 0 <= pl.HP /\ pl.HP <= pl.MaxHP
                /\ 0 <= pl.MP /\ pl.MP <= pl.MaxMP
                /\ 0 <= pl.Stamina /\ pl.Stamina <= pl.MaxStamina

\* the bonus points a creation has spent: what its attributes gained over
\* the base values of its race
SpentPoints(c) ==
    LET gain(a) == c.stats[a] - GetBaseStats(c.race)[a]
    IN  gain("STR") + gain("DEX") + gain("CON") + gain("INT") + gain("WIS") + gain("PRE")

\* the step is a line read by the allocation loop
AllocationInput ==
    /\ creation.pc = "alloc"
    /\ last'.op = "create"
    /\ creation'.pc \in {"alloc", "play"}

C25_ReconnectLoadsSameValues ==
    (creation.pc = "play" /\ last.resp = "Welcome back!" /\ creation.held # NoPlayer) =>
        /\ creation.player.Race = creation.held.Race
        /\ creation.player.Class = creation.held.Class
        /\ creation.player.Level = creation.held.Level
        /\ creation.player.XP = creation.held.XP
        /\ creation.player.MaxHP = creation.held.MaxHP
        /\ creation.player.MaxMP = creation.held.MaxMP
        /\ creation.player.Room = creation.held.Room

\* C26, as stated: the hit chance is clamped to [0.05, 1.00] so that an
\* attacker 50 levels below the defender has hit chance 0.05 and an attacker
\* 50 levels above has hit chance 1.00.
C26_HitChanceReachesClamp ==
    last.op = "CalculateHitChance" =>
        /\ 5 <= last.resp /\ last.resp <= 100
        /\ last.input[1] - last.input[2] = -50 => last.resp = 5
        /\ last.input[1] - last.input[2] = 50 => last.resp = 100

\* C26, amended: the hit chance lies in [0.05, 1.00]; an attacker 50 levels
\* below the defender has hit chance 0.70 and an attacker 50 levels above
\* has hit chance 0.90.
C26_HitChanceClamped ==
    last.op = "CalculateHitChance" =>
        /\ 5 <= last.resp /\ last.resp <= 100
        /\ last.input[1] - last.input[2] = -50 => last.resp = 70
        /\ last.input[1] - last.input[2] = 50 => last.resp = 90

\* A level-1 attacker against a level-51 defender.
C26_Witness ==
    /\ last.op = "CalculateHitChance"
    /\ last.input = <<1, 51>>
    /\ last.resp = 70

\* the step is a swing of p that killed instance id
Kills(p, id) ==
    /\ last'.op = "ExecuteAttack"
    /\ last'.who = p
    /\ awards'[id] > awards[id]

\* C27: when a player kills an entity, the player's gold increases by 5
\* times the entity's level.
C27_GoldOnKill ==
    [][\A p \in Players, id \in DOMAIN mobs :
          Kills(p, id) =>
              activePlayers'[p].Gold = activePlayers[p].Gold + (5 * mobRegistry[mobs[id].ID].Level)]_vars

\* the exit of a loaded room has a door and leads to a loaded room
DoorToLoadedRoom(id, direction) ==
    /\ loader.rooms[id][direction].Door.Exists
    /\ ExitRoomID(loader.rooms[id][direction]) \in DOMAIN loader.rooms

\* C28: once every area file is loaded, every exit with a door whose
\* destination room exists has a reverse exit in that room, with a door
\* of equal (closed, locked); the two rooms may lie in different areas.
C28_LoadedDoorsCoherent ==
    (loader.files # <<>> /\ loader.todo = <<>>) =>
        \A id \in DOMAIN loader.rooms :
            \A direction \in DOMAIN loader.rooms[id] :
                DoorToLoadedRoom(id, direction) =>
                    LET door == loader.rooms[id][direction].Door
                        dest == loader.rooms[ExitRoomID(loader.rooms[id][direction])]
                        back == GetOppositeDirection(direction)
                    IN  /\ back \in DOMAIN dest
                        /\ dest[back].Door.Exists
                        /\ dest[back].Door.Closed = door.Closed
                        /\ dest[back].Door.Locked = door.Locked

\* the step that has just run was the quit command of p
RoutedToQuit(p) ==
    /\ last'.op = "command"
    /\ last'.who = p
    /\ Len(last'.input) > 0
    /\ ToLower(last'.input[1]) = "quit"

\* C29: whenever the dispatcher routes a line to the quit command (its first
\* field lower-cases to quit), the player's progress is in the store when the
\* command has run and the session has left the play loop; a session that has
\* closed has its player removed from the active players.
C29_QuitFlushesAndLeaves ==
    /\ [][\A p \in Players :
            RoutedToQuit(p) => /\ db'[p] = SaveStats(db'[p], activePlayers'[p])
                               /\ session'[p].pc = "left"]_vars
    /\ [](\A p \in Players : session[p].pc = "closed" => p \notin activeNames)

\* what the last tick ran holds a, and b after it
RanInOrder(a, b) ==
    \E i, j \in 1..Len(sched.ran) : i < j /\ sched.ran[i] = a /\ sched.ran[j] = b

\* C30: over any number of ticks, the auto-save of all active players runs on
\* exactly every 5th tick, and the world reset (the door reset, then the
\* entity reset) runs on exactly every 15th tick.
C30_SaveOnFifthResetOnFifteenth ==
    sched.ticks > 0 =>
        /\ (\E i \in 1..Len(sched.ran) : sched.ran[i] = "AutoSaveAllPlayers")
              <=> sched.ticks % 5 = 0
        /\ (\E i \in 1..Len(sched.ran) : sched.ran[i] \in {"ResetDoors", "ResetMobs", "ProcessMobResets"})
              <=> sched.ticks % 15 = 0
        /\ sched.ticks % 15 = 0 =>
              (RanInOrder("ResetDoors", "ResetMobs") \/ RanInOrder("ResetDoors", "ProcessMobResets"))

\* the doors of a room that the word after open or close addresses: the door
\* of the exit in that direction, or else the doors that carry the keyword
AddressedDoors(room, target) ==
    IF target \in DOMAIN rooms[room].Exits
    THEN IF rooms[room].Exits[target].HasDoor THEN {target} ELSE {}
    ELSE DoorsByKeyword(room, target)

\* the step that has just run was player p's command, open or close, on a
\* line that addresses at least one door of p's room
DoorCommandRan(p, command) ==
    /\ last'.op = "command"
    /\ last'.who = p
    /\ ~activePlayers[p].IsDead
    /\ Len(last'.input) >= 2
    /\ ToLower(last'.input[1]) = command
    /\ AddressedDoors(activePlayers[p].Room, DoorTarget(last'.input)) # {}

\* C31: closing an already-closed door, opening an already-open door and
\* opening a locked door each return a rule-violation message and leave the
\* door state on both sides unchanged, whether the door is addressed by
\* direction or by keyword.
C31_DoorRuleViolations ==
    [][\A p \in Players :
        LET room  == activePlayers[p].Room
            doors == AddressedDoors(room, DoorTarget(last'.input))
        IN  /\ (DoorCommandRan(p, "close") /\ \A d \in doors : doorClosed[<<room, d>>])
                => (last'.resp = "The door is already closed." /\ doorClosed' = doorClosed)
            /\ (DoorCommandRan(p, "open") /\ \A d \in doors : ~doorClosed[<<room, d>>])
                => (last'.resp = "The door is already open." /\ doorClosed' = doorClosed)
            /\ (DoorCommandRan(p, "open")
                   /\ \A d \in doors : doorClosed[<<room, d>>] /\ rooms[room].Exits[d].Locked)
                => (last'.resp = "The door is locked." /\ doorClosed' = doorClosed)]_vars

\* The locked vault door has just been refused by keyword while another door
\* stands open, and the vault door is closed on both sides.
C31_Witness ==
    /\ last.op = "command"
    /\ last.input = <<"open", "Vault">>
    /\ last.resp = "The door is locked."
    /\ doorClosed[<<3001, "east">>] /\ doorClosed[<<3002, "west">>]
    /\ \E k \in DoorKeys : ~doorClosed[k]

\* C32: an instance that is the combat target of an active player never
\* changes room by wandering, under any interleaving of the attack command
\* with the wandering pulse.
C32_TargetNeverWanders ==
    [][\A id \in 1..Len(mobs) :
        IsMobInCombat(activePlayers, id) => mobs'[id].Room = mobs[id].Room]_vars

\* C33: an entity whose HP is 0 or below never deals damage to a player: the
\* counter-swing takes nothing from a player whose target has died, whether
\* this player's swing killed it or another player did during the step.
C33_DeadEntityDealsNoDamage ==
    [][\A p \in Players :
        (last'.op = "ReceiveAttack" /\ activePlayers'[p].HP < activePlayers[p].HP)
            => /\ activePlayers[p].Target # 0
               /\ mobs[activePlayers[p].Target].HP > 0]_vars

\* player p fights a living instance: a swing between the two is resolved
Fighting(p) ==
    /\ activePlayers[p].InCombat
    /\ activePlayers[p].Target # 0
    /\ ~activePlayers[p].IsDead
    /\ mobs[activePlayers[p].Target].HP > 0

\* C34: every swing, the player's and the entity's counter-swing alike, is
\* resolved miss-roll first, the evade-roll only if the miss-roll hit and the
\* crit-roll only if not evaded: a swing whose miss-roll fails is reported as
\* a miss whatever the evade roll would have been.
C34_MissRollFirst ==
    [][\A p \in Players :
        LET pl == activePlayers[p]
            mobLevel == mobRegistry[mobs[pl.Target].ID].Level
        IN  /\ (last'.op = "ExecuteAttack" /\ last'.who = p /\ Fighting(p)
                   /\ last'.input[1] > CalculateHitChance(pl.Level, mobLevel))
                => last'.resp = "You miss it."
            /\ (last'.op = "ReceiveAttack" /\ last'.who = p /\ Fighting(p)
                   /\ last'.input[1] > CalculateHitChance(mobLevel, pl.Level))
                => last'.resp = "It misses!"]_vars

\* C35: each death causes exactly one respawn transition: once a dead player
\* has respawned with the respawn command, the automatic respawn still
\* pending changes neither the player's room, nor HP or MP, nor the room in
\* the store.
C35_OneRespawnPerDeath ==
    [][\A p \in Players :
        (last'.op = "ScheduleRespawn" /\ last'.who = p /\ ~activePlayers[p].IsDead)
            => /\ activePlayers'[p].Room = activePlayers[p].Room
               /\ activePlayers'[p].HP = activePlayers[p].HP
               /\ activePlayers'[p].MP = activePlayers[p].MP
               /\ dbRoom'[p] = dbRoom[p]]_vars

\* C36: after every completed room-changing operation (direction move, goto,
\* recall, manual respawn, automatic respawn), successful or failed, the room
\* id in the store equals the id of the player's room in memory, given that
\* the store writes succeed.
C36_StoredRoomIsRoom ==
    \A p \in Players :
        (session[p].pc = "idle" /\ respawning[p] = "idle")
            => dbRoom[p] = activePlayers[p].Room

\* C37: every session that is in the play loop has its player in the index
\* of active sessions, and the end of one session removes only that
\* session's player, under any interleaving of connects and disconnects,
\* two sessions logged in under the same character name included.
C37_SessionsIndexed ==
    /\ [](\A c \in Conns : conns[c].pc = "play" => index[conns[c].name] = c)
    /\ [][\A n \in Players :
            (index[n] # 0 /\ index'[n] = 0) => conns'[index[n]].pc = "closed"]_vars

\* the places (room, position) of the occupancy lists that hold instance id
Listings(id) ==
    {k \in (DOMAIN roomMobs) \X (1..MaxMobInstances) :
        k[2] <= Len(roomMobs[k[1]]) /\ roomMobs[k[1]][k[2]] = id}

\* C38: in every reachable state each instance listed in a room-occupancy
\* list is present in the instance registry, appears in exactly one list
\* exactly once, and its current-room field is that room, under any
\* interleaving of wandering moves with kills.
C38_OccupancyConsistent ==
    \A r \in DOMAIN roomMobs :
        \A i \in 1..Len(roomMobs[r]) :
            LET id == roomMobs[r][i]
            IN  /\ id \in mobInstances
                /\ Cardinality(Listings(id)) = 1
                /\ mobs[id].Room = r

====
